---- MODULE Spec2Model ----
(***************************************************************************)
(* Flavor of the Day: the provider base class (rate limiting and retry),   *)
(* and the vendor adapters built on it.                                    *)
(*                                                                         *)
(* Part 1 models BaseFlavorProvider._rate_limit and                        *)
(* BaseFlavorProvider._make_request_with_retry as coroutines: every await  *)
(* of the source is a separate step, everything between two awaits is one  *)
(* atomic step (asyncio runs a task without preemption until it awaits).   *)
(***************************************************************************)
EXTENDS Integers, Sequences, FiniteSets, TLC

(***************************************************************************)
(* Bounds of the model.                                                    *)
(***************************************************************************)
MaxRetriesBound == 2    \* max_retries ranges over 0..MaxRetriesBound
MaxInterval == 2        \* min_request_interval ranges over 1..MaxInterval
MaxDelay == 1           \* retry_delay ranges over 0..MaxDelay
MaxTime == 6            \* the clock stops advancing at MaxTime
MaxCalls == 2           \* sequential calls of the retry helper by one task
RaceRetries == 1        \* max_retries ranges over 0..RaceRetries when two tasks race
MaxOps == 2             \* operations called on one adapter instance
MaxEntries == 2         \* date/flavor elements of one flavor calendar page
MaxDays == 2            \* the days argument of get_upcoming_flavors
MaxHostOps == 3         \* updates and connection tests run on one coordinator
MaxFlowSteps == 5       \* steps submitted to one config flow
MaxRefreshes == 3       \* refreshes of the coordinator after the first one

VARIABLES
    now,                \* the clock read by dt_util.now().timestamp()
    last_request_time,  \* self._last_request_time: key -> timestamp
    min_interval,       \* self._min_interval
    max_retries,        \* self._max_retries
    retry_delay,        \* self._retry_delay
    pc,                 \* per task: where the coroutine is suspended
    attempt,            \* per task: the loop variable of the retry loop
    script,             \* per task: what request_func does on its i-th invocation
    invocations,        \* per task: invocations of request_func in the current call
    wake,               \* per task: earliest time the pending asyncio.sleep returns
    last_exception,     \* per task: the local last_exception
    outcome,            \* per task: what the call returned or raised
    calls_left,         \* per task: calls of the helper still to be issued
    backoff_slept,      \* per task: the delays of the backoff sleeps of the current call
    dispatched,         \* per task: the time of its latest dispatch
    own_gap,            \* per task: time between its two latest dispatches
    any_gap,            \* time between the two latest dispatches of the instance
    cancel_requested,   \* per task: the host cancelled the task during its present call
    provider,           \* the provider_id of the adapter instance
    operation,          \* the operation running on it, or the last one that ran
    argument,           \* its search term or location id
    state_filter,       \* the state argument of search_locations ("" for None)
    responses,          \* the vendor's answers to the requests of the operation
    op_pc,              \* idle, waiting for an answer, or done
    result,             \* what the operation returned or raised
    found,              \* the store_ids of the latest search_locations("")
    ops_left,           \* operations still to be called
    days,               \* the days argument of the latest get_upcoming_flavors
    host_op,            \* the host-side operation that ran last
    host_result,        \* what it returned or raised
    host_calls,         \* the provider calls made by host-side code, in order
    location_id,        \* FlavorUpdateCoordinator.location_id
    flow_step,          \* step_id of the form the config flow shows, or its end
    flow_provider_id,   \* FlavorOfTheDayConfigFlow.provider_id ("" for None)
    flow_locations,     \* FlavorOfTheDayConfigFlow.locations
    flow_errors,        \* errors of the form shown last
    flow_entry,         \* the entry the flow created, << >> when none
    configured,         \* unique ids of the entries configured already
    select_input,       \* user_input of async_step_location_select, << >> for None
    host_left,          \* host-side operations (updates, tests, flow steps) still to be called
    entry_data,         \* entry.data of the entry being set up: provider and location_id
    setup_pc,           \* the next step of async_setup_entry, or how it ended
    setup_provider,     \* the provider async_setup_entry constructed, << >> when none
    setup_coordinator,  \* whether async_setup_entry constructed the coordinator
    runtime_data,       \* entry.runtime_data, << >> when unset
    platforms,          \* the platforms the setup was forwarded to
    sensors,            \* the sensor entities added, by the provider id of their coordinator
    setup_result,       \* what async_setup_entry returned or raised
    coordinator_data,   \* DataUpdateCoordinator.data, << >> for None
    last_update_success,\* DataUpdateCoordinator.last_update_success
    sensor_state        \* native_value and extra_state_attributes as read last

retry_vars == <<now, last_request_time, min_interval, max_retries, retry_delay,
                pc, attempt, script, invocations, wake, last_exception, outcome,
                calls_left, backoff_slept, dispatched, own_gap, any_gap,
                cancel_requested>>

provider_vars == <<provider, operation, argument, state_filter, responses,
                   op_pc, result, found, ops_left, days>>

host_vars == <<host_op, host_result, host_calls, location_id, flow_step,
               flow_provider_id, flow_locations, flow_errors, flow_entry,
               configured, select_input, host_left>>

setup_vars == <<entry_data, setup_pc, setup_provider, setup_coordinator,
                runtime_data, platforms, sensors, setup_result>>

coordinator_vars == <<coordinator_data, last_update_success, sensor_state>>

vars == <<retry_vars, provider_vars, host_vars, setup_vars, coordinator_vars>>

Tasks == {1, 2}

\* The key _make_request_with_retry passes to _rate_limit (its default).
DefaultKey == "default"

None == [kind |-> "none", by |-> 0]

NoGap == -1

\* What one invocation of request_func can do.
Outcomes == {"ok", "timeout", "client_error", "other_error"}

\* The exception classes the retry loop catches for a retry.
TransportErrors == {"timeout", "client_error"}

Scripts(n) == [1..n -> Outcomes]

\* request_func on its i-th invocation of one call; past the script it returns.
Behaviour(s, i) == IF i \in DOMAIN s THEN s[i] ELSE "ok"

\* A rate limiter that never waits.
SleepTime_NoWait(key) == 0

(***************************************************************************)
(* _rate_limit, lines 41-47: the time to sleep, 0 when no sleep is needed. *)
(***************************************************************************)
SleepTime(key) ==
    IF key \in DOMAIN last_request_time
    THEN LET time_since_last == now - last_request_time[key]
         IN  IF time_since_last < min_interval
             THEN min_interval - time_since_last
             ELSE 0
    ELSE 0

\* _rate_limit, line 48: record the timestamp of this request.
Stamp(key) ==
    [k \in (DOMAIN last_request_time) \cup {key} |->
        IF k = key THEN now ELSE last_request_time[k]]

\* A retry loop that gives up one attempt early.
MayRetry_OneLess(a) == a + 1 < max_retries

\* The retry loop's test "attempt < self._max_retries" (lines 64 and 83).
MayRetry(a) == a < max_retries

\* The mutant: the same delay before every retry.
BackoffDelay_Constant(a) == retry_delay

\* The backoff before the next attempt (lines 72-74 and 91-93).
BackoffDelay(a) == retry_delay * (a + 1)

\* A retry loop that retries timeouts only.
IsTransportError_TimeoutOnly(o) == o = "timeout"

\* The mutant: a cancellation is retried like a transport error.
IsTransportError_Cancellation(o) == o \in TransportErrors \cup {"cancelled"}

\* A retry loop that retries whatever request_func raises.
IsTransportError_Any(o) == o # "ok"

\* The except clauses of lines 62 and 81 against the one of line 100.
IsTransportError(o) == o \in TransportErrors

\* The time of the latest dispatch by any task of the instance, NoGap when none.
LatestDispatch ==
    IF \A t \in Tasks : dispatched[t] = NoGap
    THEN NoGap
    ELSE CHOOSE d \in {dispatched[t] : t \in Tasks} :
            \A t \in Tasks : dispatched[t] <= d

(***************************************************************************)
(* Line 48 of _rate_limit followed, without an await in between, by the    *)
(* invocation of request_func on line 61: the dispatch of one request.     *)
(***************************************************************************)
Dispatch(t) ==
    /\ last_request_time' = Stamp(DefaultKey)
    /\ invocations' = [invocations EXCEPT ![t] = @ + 1]
    /\ pc' = [pc EXCEPT ![t] = "in_request"]
    /\ dispatched' = [dispatched EXCEPT ![t] = now]
    /\ own_gap' = [own_gap EXCEPT ![t] =
            IF dispatched[t] = NoGap THEN NoGap ELSE now - dispatched[t]]
    /\ any_gap' = IF LatestDispatch = NoGap THEN NoGap ELSE now - LatestDispatch

\* The head of "for attempt in range(self._max_retries + 1)" (line 56), and
\* line 103 when the range is exhausted.
LoopHead(t, a) ==
    IF a < max_retries + 1
    THEN /\ pc' = [pc EXCEPT ![t] = "rate_limit"]
         /\ outcome' = [outcome EXCEPT ![t] = None]
    ELSE /\ pc' = [pc EXCEPT ![t] = "returned"]
         /\ outcome' = [outcome EXCEPT ![t] = None]

\* A task calls _make_request_with_retry with a request function behaving as s.
Call(t, s) ==
    /\ pc[t] \in {"idle", "returned", "raised"}
    /\ calls_left[t] > 0
    /\ calls_left' = [calls_left EXCEPT ![t] = @ - 1]
    /\ script' = [script EXCEPT ![t] = s]
    /\ attempt' = [attempt EXCEPT ![t] = 0]
    /\ invocations' = [invocations EXCEPT ![t] = 0]
    /\ last_exception' = [last_exception EXCEPT ![t] = None]
    /\ backoff_slept' = [backoff_slept EXCEPT ![t] = << >>]
    /\ cancel_requested' = [cancel_requested EXCEPT ![t] = FALSE]
    /\ LoopHead(t, 0)
    /\ UNCHANGED <<now, last_request_time, min_interval, max_retries, retry_delay,
                   wake, dispatched, own_gap, any_gap>>
    /\ UNCHANGED <<provider_vars, host_vars, setup_vars, coordinator_vars>>

\* _rate_limit up to its await (lines 41-47); without a sleep it runs through
\* line 48 and into request_func.
RateLimit(t) ==
    /\ pc[t] = "rate_limit"
    /\ IF SleepTime(DefaultKey) > 0
       THEN /\ wake' = [wake EXCEPT ![t] = now + SleepTime(DefaultKey)]
            /\ pc' = [pc EXCEPT ![t] = "rate_sleep"]
            /\ UNCHANGED <<last_request_time, invocations, dispatched, own_gap, any_gap>>
       ELSE /\ Dispatch(t)
            /\ UNCHANGED wake
    /\ UNCHANGED <<now, min_interval, max_retries, retry_delay, attempt, script,
                   last_exception, outcome, calls_left, backoff_slept>>
    /\ UNCHANGED <<cancel_requested, provider_vars, host_vars, setup_vars, coordinator_vars>>

\* asyncio.sleep(sleep_time) of line 47 returns; line 48 and the dispatch follow.
RateLimitWake(t) ==
    /\ pc[t] = "rate_sleep"
    /\ now >= wake[t]
    /\ Dispatch(t)
    /\ UNCHANGED <<now, min_interval, max_retries, retry_delay, attempt, script,
                   wake, last_exception, outcome, calls_left, backoff_slept>>
    /\ UNCHANGED <<cancel_requested, provider_vars, host_vars, setup_vars, coordinator_vars>>

\* The except clauses of the try (lines 62-102) for an exception of kind o
\* raised at line 59 or 61, up to the next await or the raise.
ExceptClauses(t, o) ==
    IF IsTransportError(o)
    THEN /\ last_exception' = [last_exception EXCEPT ![t] = [kind |-> o, by |-> invocations[t]]]
         /\ IF MayRetry(attempt[t])
            THEN /\ wake' = [wake EXCEPT ![t] = now + BackoffDelay(attempt[t])]
                 /\ backoff_slept' = [backoff_slept EXCEPT ![t] = Append(@, BackoffDelay(attempt[t]))]
                 /\ pc' = [pc EXCEPT ![t] = "backoff"]
                 /\ UNCHANGED outcome
            ELSE /\ outcome' = [outcome EXCEPT ![t] = [kind |-> o, by |-> invocations[t]]]
                 /\ pc' = [pc EXCEPT ![t] = "raised"]
                 /\ UNCHANGED <<wake, backoff_slept>>
    ELSE /\ outcome' = [outcome EXCEPT ![t] = [kind |-> o, by |-> invocations[t]]]
         /\ pc' = [pc EXCEPT ![t] = "raised"]
         /\ UNCHANGED <<last_exception, wake, backoff_slept>>

\* request_func returns or raises (line 61) and the except clauses run
\* (lines 62-102) up to the next await, return or raise.
RequestDone(t) ==
    /\ pc[t] = "in_request"
    /\ LET o == Behaviour(script[t], invocations[t])
       IN  IF o = "ok"
           THEN /\ outcome' = [outcome EXCEPT ![t] = [kind |-> "value", by |-> invocations[t]]]
                /\ pc' = [pc EXCEPT ![t] = "returned"]
                /\ UNCHANGED <<last_exception, wake, backoff_slept>>
           ELSE ExceptClauses(t, o)
    /\ UNCHANGED <<now, last_request_time, min_interval, max_retries, retry_delay,
                   attempt, script, invocations, calls_left, dispatched, own_gap, any_gap>>
    /\ UNCHANGED <<cancel_requested, provider_vars, host_vars, setup_vars, coordinator_vars>>

\* The host cancels the task while it is suspended: CancelledError is raised
\* at the await.  In _rate_limit and in request_func the await is inside the
\* try, so the except clauses are tried; the backoff sleep is inside an except
\* clause, where nothing catches.
Cancel(t) ==
    /\ pc[t] \in {"rate_sleep", "in_request", "backoff"}
    /\ cancel_requested' = [cancel_requested EXCEPT ![t] = TRUE]
    /\ IF pc[t] = "backoff"
       THEN /\ outcome' = [outcome EXCEPT ![t] = [kind |-> "cancelled", by |-> invocations[t]]]
            /\ pc' = [pc EXCEPT ![t] = "raised"]
            /\ UNCHANGED <<last_exception, wake, backoff_slept>>
       ELSE ExceptClauses(t, "cancelled")
    /\ UNCHANGED <<now, last_request_time, min_interval, max_retries, retry_delay,
                   attempt, script, invocations, calls_left, dispatched, own_gap, any_gap>>
    /\ UNCHANGED <<provider_vars, host_vars, setup_vars, coordinator_vars>>

\* The backoff sleep (line 72 or 91) returns and the loop goes to its next attempt.
BackoffWake(t) ==
    /\ pc[t] = "backoff"
    /\ now >= wake[t]
    /\ attempt' = [attempt EXCEPT ![t] = @ + 1]
    /\ LoopHead(t, attempt[t] + 1)
    /\ UNCHANGED <<now, last_request_time, min_interval, max_retries, retry_delay,
                   script, invocations, wake, last_exception, calls_left,
                   backoff_slept, dispatched, own_gap, any_gap>>
    /\ UNCHANGED <<cancel_requested, provider_vars, host_vars, setup_vars, coordinator_vars>>

\* Time passes while every task is suspended or idle.
Tick ==
    /\ now < MaxTime
    /\ now' = now + 1
    /\ UNCHANGED <<last_request_time, min_interval, max_retries, retry_delay,
                   pc, attempt, script, invocations, wake, last_exception, outcome,
                   calls_left, backoff_slept, dispatched, own_gap, any_gap>>
    /\ UNCHANGED <<cancel_requested, provider_vars, host_vars, setup_vars, coordinator_vars>>

\* The state after BaseFlavorProvider.__init__ (lines 22-37), with no call issued.
InitHelper ==
    /\ now = 0
    /\ last_request_time = << >>
    /\ pc = [t \in Tasks |-> "idle"]
    /\ attempt = [t \in Tasks |-> 0]
    /\ script = [t \in Tasks |-> << >>]
    /\ invocations = [t \in Tasks |-> 0]
    /\ wake = [t \in Tasks |-> 0]
    /\ last_exception = [t \in Tasks |-> None]
    /\ outcome = [t \in Tasks |-> None]
    /\ backoff_slept = [t \in Tasks |-> << >>]
    /\ dispatched = [t \in Tasks |-> NoGap]
    /\ own_gap = [t \in Tasks |-> NoGap]
    /\ any_gap = NoGap
    /\ cancel_requested = [t \in Tasks |-> FALSE]

\* No entry is being set up, and the coordinator has fetched nothing yet.
InitSetupIdle ==
    /\ entry_data = [provider |-> "", location_id |-> ""]
    /\ setup_pc = "none"
    /\ setup_provider = << >>
    /\ setup_coordinator = FALSE
    /\ runtime_data = << >>
    /\ platforms = {}
    /\ setup_result = [kind |-> "none", value |-> ""]
    /\ coordinator_data = << >>
    /\ last_update_success = TRUE
    /\ sensor_state = << >>

\* No host-side code has run: no flow started, no update requested.
InitHostIdle ==
    /\ host_op = "none"
    /\ host_result = [kind |-> "none", value |-> ""]
    /\ host_calls = << >>
    /\ location_id = ""
    /\ flow_step = "none"
    /\ flow_provider_id = ""
    /\ flow_locations = << >>
    /\ flow_errors = {}
    /\ flow_entry = << >>
    /\ configured = {}
    /\ select_input = << >>
    /\ host_left = 0
    /\ InitSetupIdle
    /\ sensors = {}

\* No operation is running on the adapter.
InitAdapterIdle ==
    /\ operation = "none"
    /\ argument = ""
    /\ state_filter = ""
    /\ responses = << >>
    /\ result = [kind |-> "request", value |-> ""]
    /\ op_pc = "idle"
    /\ found = {}
    /\ days = 0

\* One task issuing its calls one after the other.
InitRetry ==
    /\ InitHelper
    /\ min_interval \in 1..MaxInterval
    /\ max_retries \in 0..MaxRetriesBound
    /\ retry_delay \in 0..MaxDelay
    /\ calls_left = [t \in Tasks |-> IF t = 1 THEN MaxCalls ELSE 0]
    /\ provider = "culvers"
    /\ ops_left = 0
    /\ InitAdapterIdle
    /\ InitHostIdle

\* Two tasks each calling once into the same instance concurrently, the instance
\* constructed with the default min_request_interval and retry_delay.
InitRace ==
    /\ InitHelper
    /\ min_interval = 1
    /\ max_retries \in 0..RaceRetries
    /\ retry_delay = 1
    /\ calls_left = [t \in Tasks |-> 1]
    /\ provider = "culvers"
    /\ ops_left = 0
    /\ InitAdapterIdle
    /\ InitHostIdle

NextRetry ==
    \/ \E t \in Tasks : \E s \in Scripts(max_retries + 1) : Call(t, s)
    \/ \E t \in Tasks : RateLimit(t)
    \/ \E t \in Tasks : RateLimitWake(t)
    \/ \E t \in Tasks : RequestDone(t)
    \/ \E t \in Tasks : BackoffWake(t)
    \/ Tick

SpecRetry == InitRetry /\ [][NextRetry]_vars

SpecRace == InitRace /\ [][NextRetry]_vars

\* The calls of one task, with the host free to cancel it wherever it is
\* suspended.
NextCancel ==
    \/ NextRetry
    \/ \E t \in Tasks : Cancel(t)

SpecCancel == InitRetry /\ [][NextCancel]_vars

(***************************************************************************)
(* Part 2: the vendor adapters.  Strings are modelled as strings: lower(),  *)
(* replace() and the substring test "in" are computed character by          *)
(* character.                                                               *)
(***************************************************************************)
LowerChar(c) ==
    CASE c = "A" -> "a" [] c = "B" -> "b" [] c = "C" -> "c" [] c = "D" -> "d"
      [] c = "E" -> "e" [] c = "F" -> "f" [] c = "G" -> "g" [] c = "H" -> "h"
      [] c = "I" -> "i" [] c = "J" -> "j" [] c = "K" -> "k" [] c = "L" -> "l"
      [] c = "M" -> "m" [] c = "N" -> "n" [] c = "O" -> "o" [] c = "P" -> "p"
      [] c = "Q" -> "q" [] c = "R" -> "r" [] c = "S" -> "s" [] c = "T" -> "t"
      [] c = "U" -> "u" [] c = "V" -> "v" [] c = "W" -> "w" [] c = "X" -> "x"
      [] c = "Y" -> "y" [] c = "Z" -> "z" [] OTHER -> c

RECURSIVE Lower(_)
\* str.lower()
Lower(s) ==
    IF Len(s) = 0 THEN ""
    ELSE LowerChar(SubSeq(s, 1, 1)) \o Lower(SubSeq(s, 2, Len(s)))

RECURSIVE Replace(_, _, _)
\* str.replace(c, r) for a one-character c
Replace(s, c, r) ==
    IF Len(s) = 0 THEN ""
    ELSE (IF SubSeq(s, 1, 1) = c THEN r ELSE SubSeq(s, 1, 1))
            \o Replace(SubSeq(s, 2, Len(s)), c, r)

\* Python's "sub in s"
Contains(sub, s) ==
    \/ Len(sub) = 0
    \/ \E i \in 1..(Len(s) - Len(sub) + 1) : SubSeq(s, i, i + Len(sub) - 1) = sub

\* Python's truth value of a string
Truthy(s) == s # ""

\* models.LocationInfo; phone, hours, website_url, latitude and longitude are
\* carried by the source but read by no adapter logic and are left out.
LocationInfo(store_id, name, address, city, state, zip_code) ==
    [store_id |-> store_id, name |-> name, address |-> address,
     city |-> city, state |-> state, zip_code |-> zip_code]

\* What an operation hands to its caller.
ListResult(locs) == [kind |-> "list", value |-> locs]
LocationResult(loc) == [kind |-> "location", value |-> loc]
FlavorResult(name) == [kind |-> "flavor", value |-> name]
Raise(error) == [kind |-> "raise", value |-> error]
NeedRequest == [kind |-> "request", value |-> ""]

\* exceptions.py: the subkinds of FlavorProviderCommunicationError, itself included.
CommunicationErrors ==
    {"FlavorProviderCommunicationError", "FlavorProviderTimeoutError",
     "RateLimitError", "NetworkError"}

\* exceptions.py: every FlavorProviderError kind.
ProviderErrors ==
    CommunicationErrors \cup
    {"FlavorProviderError", "FlavorProviderAuthenticationError",
     "LocationNotFoundError", "FlavorNotAvailableError", "FlavorProviderConfigError"}

\* The provider_id of each adapter class.
Adapters == {"culvers", "kopps", "oscars", "leducs", "goodberrys"}

\* KoppsProvider.get_location_by_id: known_locations
KoppsKnownLocations ==
    << LocationInfo("kopps-greenfield", "Kopp's Frozen Custard - Greenfield",
                    "4200 W. Greenfield Ave.", "Greenfield", "WI", ""),
       LocationInfo("kopps-brookfield", "Kopp's Frozen Custard - Brookfield",
                    "18800 W. Bluemound Rd.", "Brookfield", "WI", ""),
       LocationInfo("kopps-glendale", "Kopp's Frozen Custard - Glendale",
                    "6263 N. Downer Ave.", "Glendale", "WI", "") >>

\* OscarsProvider._get_known_oscars_locations
OscarsKnownLocations ==
    << LocationInfo("oscars-stlouis", "Oscar's Frozen Custard - St. Louis",
                    "1234 Main St", "St. Louis", "MO", ""),
       LocationInfo("oscars-kirkwood", "Oscar's Frozen Custard - Kirkwood",
                    "5678 Manchester Rd", "Kirkwood", "MO", ""),
       LocationInfo("oscars-ballwin", "Oscar's Frozen Custard - Ballwin",
                    "9012 Ballwin Mill Rd", "Ballwin", "MO", "") >>

\* LeducsProvider.get_location_by_id: the one location
LeducsLocation ==
    LocationInfo("leducs-wales", "Leduc's Frozen Custard", "240 W. Summit Ave.",
                 "Wales", "WI", "53183")

\* GoodberrysProvider.search_locations: known_locations
GoodberrysKnownLocations ==
    << LocationInfo("goodberrys-southern-pines", "Goodberry's - Southern Pines",
                    "231 Carolina Green Pkwy", "Southern Pines", "NC", ""),
       LocationInfo("goodberrys-raleigh-spring-forest", "Goodberry's - Raleigh (Spring Forest)",
                    "2421 Spring Forest Rd.", "Raleigh", "NC", ""),
       LocationInfo("goodberrys-raleigh-strickland", "Goodberry's - Raleigh (Strickland Rd)",
                    "9700 Strickland Rd.", "Raleigh", "NC", ""),
       LocationInfo("goodberrys-raleigh-clark-ave", "Goodberry's - Raleigh (Clark Ave)",
                    "2042 Clark Ave.", "Raleigh", "NC", ""),
       LocationInfo("goodberrys-cary-kildaire-farm", "Goodberry's - Cary (Kildaire Farm Rd)",
                    "1146 Kildaire Farm Rd.", "Cary", "NC", ""),
       LocationInfo("goodberrys-cary-davis-dr", "Goodberry's - Cary (Davis Dr)",
                    "2325 Davis Dr.", "Cary", "NC", ""),
       LocationInfo("goodberrys-garner", "Goodberry's - Garner",
                    "1407 Garner Station Blvd.", "Garner", "NC", ""),
       LocationInfo("goodberrys-wake-forest", "Goodberry's - Wake Forest",
                    "11736 Retail Dr.", "Wake Forest", "NC", ""),
       LocationInfo("goodberrys-durham", "Goodberry's - Durham",
                    "3906 N. Roxboro St.", "Durham", "NC", "") >>

Range(seq) == {seq[i] : i \in DOMAIN seq}

StoreIds(locs) == {locs[i].store_id : i \in DOMAIN locs}

UpperChar(c) ==
    CASE c = "a" -> "A" [] c = "b" -> "B" [] c = "c" -> "C" [] c = "d" -> "D"
      [] c = "e" -> "E" [] c = "f" -> "F" [] c = "g" -> "G" [] c = "h" -> "H"
      [] c = "i" -> "I" [] c = "j" -> "J" [] c = "k" -> "K" [] c = "l" -> "L"
      [] c = "m" -> "M" [] c = "n" -> "N" [] c = "o" -> "O" [] c = "p" -> "P"
      [] c = "q" -> "Q" [] c = "r" -> "R" [] c = "s" -> "S" [] c = "t" -> "T"
      [] c = "u" -> "U" [] c = "v" -> "V" [] c = "w" -> "W" [] c = "x" -> "X"
      [] c = "y" -> "Y" [] c = "z" -> "Z" [] OTHER -> c

RECURSIVE Upper(_)
\* str.upper()
Upper(s) ==
    IF Len(s) = 0 THEN ""
    ELSE UpperChar(SubSeq(s, 1, 1)) \o Upper(SubSeq(s, 2, Len(s)))

\* The first element of seq satisfying the test of a for loop that returns on
\* its first hit: here, the first location with the given store_id.
FirstWithId(locs, id) ==
    LET hits == SelectSeq(locs, LAMBDA loc : loc.store_id = id)
    IN  IF hits = << >> THEN Raise("LocationNotFoundError")
        ELSE LocationResult(Head(hits))

(***************************************************************************)
(* What the vendor's server does with one HTTP request.                    *)
(*   client_error  session.get/post raises aiohttp.ClientError             *)
(*   timeout       it raises TimeoutError                                  *)
(*   non200        the response has a status other than 200                *)
(*   decode_error  response.text() raises (the body is no text)            *)
(*   ok            status 200 with a body                                  *)
(***************************************************************************)
TransportFailures == {"client_error", "timeout"}

FailureStatuses == TransportFailures \cup {"non200", "decode_error"}

NoBody == [none |-> TRUE]

Response(status, body) == [status |-> status, body |-> body]

\* A search that returns its empty list: the "return []" of the except
\* clauses and of the non-200 branches of every search_locations.
SearchFailure_Raises == Raise("ClientError")

SearchFailure == ListResult(<< >>)

\* A lookup that lets the transport error through.
LookupFailure_Communication == Raise("NetworkError")

\* The "raise LocationNotFoundError" of every get_location_by_id.
LookupFailure == Raise("LocationNotFoundError")

\* The mutant: get_current_flavor without its "except Exception" clause, so
\* that what the extraction raised leaves it.
FlavorFailure_Uncaught == Raise("TypeError")

\* The "raise FlavorNotAvailableError" of every get_current_flavor.
FlavorFailure == Raise("FlavorNotAvailableError")

(***************************************************************************)
(* Goodberry's: a fixed table, no HTTP request for locations.              *)
(***************************************************************************)
GoodberrysSearchLocations(term) ==
    IF ~Truthy(term)
    THEN ListResult(GoodberrysKnownLocations)
    ELSE LET search_lower == Lower(term)
         IN  ListResult(SelectSeq(GoodberrysKnownLocations, LAMBDA loc :
                \/ Contains(search_lower, Lower(loc.name))
                \/ Contains(search_lower, Lower(loc.city))
                \/ Contains(search_lower, Lower(loc.address))))

GoodberrysGetLocationById(id) ==
    LET all_locations == GoodberrysSearchLocations("").value
    IN  IF FirstWithId(all_locations, id).kind = "location"
        THEN FirstWithId(all_locations, id)
        ELSE LookupFailure

(***************************************************************************)
(* Leduc's: one location.                                                  *)
(***************************************************************************)
LeducsGetLocationById(id) ==
    IF id = "leducs-wales" THEN LocationResult(LeducsLocation) ELSE LookupFailure

LeducsSearchLocations(term, state) ==
    LET got == LeducsGetLocationById("leducs-wales")
    IN  IF got.kind = "raise" THEN SearchFailure
        ELSE LET location == got.value
             IN  IF Truthy(term)
                 THEN IF \/ Contains(Lower(term), Lower(location.city))
                         \/ Contains(Lower(term), Lower(location.address))
                         \/ (Truthy(state) /\ Upper(state) = Upper(location.state))
                      THEN ListResult(<<location>>)
                      ELSE ListResult(<< >>)
                 ELSE ListResult(<<location>>)

(***************************************************************************)
(* Oscar's.                                                                *)
(***************************************************************************)
\* The alternatives of city_pattern, in the order of the pattern.
OscarsCityAlternatives ==
    <<"St. Louis", "Kirkwood", "Ballwin", "Chesterfield", "O'Fallon", "etc.">>

\* The alternatives of city_pattern matching (re.IGNORECASE) at position i.
OscarsCityAt(text, i) ==
    SelectSeq(OscarsCityAlternatives, LAMBDA a :
        /\ i + Len(a) - 1 <= Len(text)
        /\ Lower(SubSeq(text, i, i + Len(a) - 1)) = Lower(a))

\* re.findall(city_pattern, text, re.IGNORECASE)[0]: the leftmost match, as
\* written in the text; "" when there is none.
OscarsFirstCity(text) ==
    LET at == {i \in 1..Len(text) : OscarsCityAt(text, i) # << >>}
    IN  IF at = {} THEN ""
        ELSE LET i == CHOOSE j \in at : \A k \in at : j <= k
             IN  SubSeq(text, i, i + Len(Head(OscarsCityAt(text, i))) - 1)

WordChars ==
    {"a","b","c","d","e","f","g","h","i","j","k","l","m","n","o","p","q","r","s",
     "t","u","v","w","x","y","z","0","1","2","3","4","5","6","7","8","9","_"}

\* re.search(r"(MO|IL|AR|TN)\b", text): the leftmost match, "" when none.
OscarsStateMatch(text) ==
    LET at == {i \in 1..(Len(text) - 1) :
                /\ SubSeq(text, i, i + 1) \in {"MO", "IL", "AR", "TN"}
                /\ \/ i + 1 = Len(text)
                   \/ Lower(SubSeq(text, i + 2, i + 2)) \notin WordChars}
    IN  IF at = {} THEN ""
        ELSE LET i == CHOOSE j \in at : \A k \in at : j <= k
             IN  SubSeq(text, i, i + 1)

\* _parse_location_from_element on an element with this text: the location
\* in a one-element sequence, << >> when it returns None.  The element texts of the model hold no digit, so that
\* address_pattern (which needs \d+) never matches.
OscarsParseLocationFromElement(text) ==
    LET city == OscarsFirstCity(text)
    IN  IF Truthy(city)
        THEN LET state == IF Truthy(OscarsStateMatch(text))
                          THEN OscarsStateMatch(text) ELSE "MO"
                 city_clean == Replace(Replace(Replace(Lower(city), " ", ""), ".", ""), "'", "")
                 store_id == "oscars-" \o city_clean
             IN  << LocationInfo(store_id, "Oscar's Frozen Custard - " \o city,
                                 "Location in " \o city, city, state, "") >>
        ELSE << >>

RECURSIVE OscarsParseElements(_)
\* The loops of _parse_locations_from_page over the selected elements.
OscarsParseElements(elements) ==
    IF elements = << >> THEN << >>
    ELSE OscarsParseLocationFromElement(Head(elements))
            \o OscarsParseElements(Tail(elements))

\* _parse_locations_from_page; elements are the texts of the elements the
\* selectors select, in the order the loops meet them.
OscarsParseLocationsFromPage(elements, term, state) ==
    LET locations == OscarsParseElements(elements)
    IN  IF locations # << >> THEN locations
        ELSE SelectSeq(OscarsKnownLocations, LAMBDA location :
                /\ Truthy(term)
                /\ \/ Contains(Lower(term), Lower(location.city))
                   \/ Contains(Lower(term), Lower(location.address))
                   \/ (Truthy(state) /\ Upper(state) = Upper(location.state)))

\* search_locations: the locations page, then the main page.
OscarsSearchLocations(term, state, resps) ==
    IF resps = << >> THEN NeedRequest
    ELSE LET first == resps[1]
             first_locations ==
                IF first.status = "ok"
                THEN OscarsParseLocationsFromPage(first.body.elements, term, state)
                ELSE << >>
         IN  IF first.status \in TransportFailures \cup {"decode_error"}
             THEN SearchFailure
             ELSE IF first.status = "ok" /\ first_locations # << >>
             THEN ListResult(first_locations)
             ELSE IF Len(resps) = 1 THEN NeedRequest
             ELSE LET second == resps[2]
                  IN  IF second.status = "ok"
                      THEN ListResult(OscarsParseLocationsFromPage(
                                        second.body.elements, term, state))
                      ELSE SearchFailure

OscarsGetLocationById(id) ==
    IF FirstWithId(OscarsKnownLocations, id).kind = "location"
    THEN FirstWithId(OscarsKnownLocations, id)
    ELSE LookupFailure

(***************************************************************************)
(* Kopp's.                                                                 *)
(***************************************************************************)
\* _parse_location_from_block: decided by the search term and the state
\* alone; << >> when it returns None.  (phone is left out of LocationInfo.)
KoppsParseLocationFromBlock(term, state) ==
    IF Truthy(state) /\ Upper(state) # "WI" THEN << >>
    ELSE LET search_lower == Lower(term)
         IN  IF Contains("greenfield", search_lower) THEN <<KoppsKnownLocations[1]>>
             ELSE IF Contains("brookfield", search_lower) THEN <<KoppsKnownLocations[2]>>
             ELSE IF Contains("glendale", search_lower) THEN <<KoppsKnownLocations[3]>>
             ELSE << >>

\* _parse_location_from_header on a header with this text.
KoppsParseLocationFromHeader(text) ==
    LET city == Lower(text)
    IN  IF Contains("greenfield", city)
        THEN << LocationInfo("kopps-greenfield", "Kopp's Frozen Custard - Greenfield",
                             "4200 W. Greenfield Ave.", "Greenfield", "WI", "") >>
        ELSE IF Contains("brookfield", city)
        THEN << LocationInfo("kopps-brookfield", "Kopp's Frozen Custard - Brookfield",
                             "18800 W. Bluemound Rd.", "Brookfield", "WI", "") >>
        ELSE IF Contains("glendale", city)
        THEN << LocationInfo("kopps-glendale", "Kopp's Frozen Custard - Glendale",
                             "6263 N. Downer Ave.", "Glendale", "WI", "") >>
        ELSE << >>

\* The h2/h3 headers _extract_locations_from_main_page keeps.
KoppsIsLocationHeader(text) ==
    \E city \in {"greenfield", "brookfield", "glendale", "milwaukee"} :
        Contains(city, Lower(text))

RECURSIVE KoppsParseHeaders(_)
KoppsParseHeaders(headers) ==
    IF headers = << >> THEN << >>
    ELSE (IF KoppsIsLocationHeader(Head(headers))
          THEN KoppsParseLocationFromHeader(Head(headers)) ELSE << >>)
            \o KoppsParseHeaders(Tail(headers))

RECURSIVE KoppsParseBlocks(_, _, _)
\* The loop over the h2/h3/h4 elements of the locations page.
KoppsParseBlocks(n, term, state) ==
    IF n = 0 THEN << >>
    ELSE KoppsParseLocationFromBlock(term, state) \o KoppsParseBlocks(n - 1, term, state)

\* The filter at the end of search_locations (lines 76-89).
KoppsFilter(locations, term) ==
    IF Truthy(term) /\ locations # << >>
    THEN LET search_term_lower == Lower(term)
         IN  SelectSeq(locations, LAMBDA location :
                \/ Contains(search_term_lower, Lower(location.city))
                \/ Contains(search_term_lower, Lower(location.address))
                \/ (Truthy(location.zip_code)
                    /\ Contains(search_term_lower, Lower(location.zip_code))))
    ELSE locations

\* _extract_locations_from_main_page, given the response to its request.
KoppsExtractLocationsFromMainPage(resp) ==
    IF resp.status = "ok" THEN KoppsParseHeaders(resp.body.headers) ELSE << >>

\* search_locations: the locations page, then the main page when the first
\* gave no location.
KoppsSearchLocations(term, state, resps) ==
    IF resps = << >> THEN NeedRequest
    ELSE LET first == resps[1]
             locations ==
                IF first.status = "ok" /\ ~first.body.blocks
                THEN KoppsParseBlocks(first.body.headings, term, state)
                ELSE << >>
         IN  IF first.status # "ok" THEN SearchFailure
             ELSE IF locations # << >> THEN ListResult(KoppsFilter(locations, term))
             ELSE IF Len(resps) = 1 THEN NeedRequest
             ELSE ListResult(KoppsFilter(KoppsExtractLocationsFromMainPage(resps[2]), term))

KoppsGetLocationById(id) ==
    IF id \in StoreIds(KoppsKnownLocations)
    THEN FirstWithId(KoppsKnownLocations, id)
    ELSE LookupFailure

(***************************************************************************)
(* Culver's.  A restaurant record of the locator page's JSON is a function *)
(* from the keys it has to strings; the records of the model carry their   *)
(* address as a string, or not at all.                                     *)
(***************************************************************************)
\* data.get(key, ""), and data.get(key) up to truth value
Get(data, key) == IF key \in DOMAIN data THEN data[key] ELSE ""

\* a or b
Or(a, b) == IF Truthy(a) THEN a ELSE b

\* _create_location_from_restaurant_data; << >> when it returns None.
CulversCreateLocationFromRestaurantData(data) ==
    LET name == Or(Get(data, "name"), Or(Get(data, "title"), Get(data, "restaurant_name")))
        address == Get(data, "address")
        city == Get(data, "city")
        state == Get(data, "state")
        zip_code == Or(Get(data, "zip"), Get(data, "zipcode"))
        given_id == Or(Get(data, "id"), Or(Get(data, "slug"), Get(data, "restaurant_id")))
        store_id == IF ~Truthy(given_id) /\ Truthy(name) /\ Truthy(city)
                    THEN Replace(Lower(name), " ", "-") \o "-" \o Replace(Lower(city), " ", "-")
                    ELSE given_id
    IN  IF ~(Truthy(name) /\ Truthy(city)) THEN << >>
        ELSE << LocationInfo(store_id, name, address, city, state, zip_code) >>

\* _looks_like_restaurant
CulversLooksLikeRestaurant(data) ==
    Cardinality({"name", "address", "city", "state", "restaurant", "location"}
                    \cap DOMAIN data) >= 3

RECURSIVE CulversCreateAll(_)
CulversCreateAll(records) ==
    IF records = << >> THEN << >>
    ELSE CulversCreateLocationFromRestaurantData(Head(records))
            \o CulversCreateAll(Tail(records))

\* _find_restaurants_recursive over the whole JSON document: listed are the
\* records of the list at the first path of paths_to_check that holds one,
\* nested the other dictionaries of the document.
CulversFindRestaurantsRecursive(listed, nested) ==
    CulversCreateAll(SelectSeq(listed \o nested, CulversLooksLikeRestaurant))

\* _filter_locations
CulversFilterLocations(locations, term, state) ==
    LET search_lower == IF Truthy(term) THEN Lower(term) ELSE ""
    IN  SelectSeq(locations, LAMBDA location :
            /\ ~(Truthy(state) /\ Lower(location.state) # Lower(state))
            /\ \/ ~Truthy(term)
               \/ Contains(search_lower, Lower(location.city))
               \/ Contains(search_lower, Lower(location.address))
               \/ (Truthy(location.zip_code)
                   /\ Contains(search_lower, Lower(location.zip_code)))
               \/ Contains(search_lower, Lower(location.name)))

\* _extract_restaurants_from_next_data
CulversExtractRestaurantsFromNextData(listed, nested, term, state) ==
    LET direct == CulversCreateAll(listed)
        locations == IF direct # << >> THEN direct
                     ELSE CulversFindRestaurantsRecursive(listed, nested)
    IN  IF locations # << >> THEN CulversFilterLocations(locations, term, state)
        ELSE locations

\* _extract_locations_from_locator; _extract_locations_fallback returns [].
CulversExtractLocationsFromLocator(body, term, state) ==
    IF body.next_data = "json"
    THEN CulversExtractRestaurantsFromNextData(body.listed, body.nested, term, state)
    ELSE << >>

\* search_locations
CulversSearchLocations(term, state, resps) ==
    IF resps = << >> THEN NeedRequest
    ELSE IF resps[1].status = "ok"
    THEN ListResult(CulversExtractLocationsFromLocator(resps[1].body, term, state))
    ELSE SearchFailure

\* _parse_location_data on a record of the collection; float() of a latitude
\* that is no number raises ValueError and gives None.
CulversParseLocationData(data) ==
    IF ~Truthy(Get(data, "clientkey")) \/ Get(data, "latitude") = "not-a-number"
    THEN << >>
    ELSE << LocationInfo(Get(data, "clientkey"), Get(data, "name"), Get(data, "address1"),
                         Get(data, "city"), Get(data, "state"), Get(data, "postalcode")) >>

\* The loop over data["collection"] of get_location_by_id (lines 602-609).
CulversFindInCollection(collection, id) ==
    LET hits == SelectSeq(collection, LAMBDA data :
                    /\ Get(data, "clientkey") = id
                    /\ CulversParseLocationData(data) # << >>)
    IN  IF hits = << >> THEN LookupFailure
        ELSE LocationResult(Head(CulversParseLocationData(Head(hits))))

\* get_location_by_id: the JSON branch, the XML branch and the "try JSON
\* anyway" branch; a body that does not parse raises there, and every
\* exception is caught by the clauses of lines 610-615.
CulversGetLocationById(id, resps) ==
    IF resps = << >> THEN NeedRequest
    ELSE IF resps[1].status # "ok" THEN LookupFailure
    ELSE LET body == resps[1].body
         IN  IF Contains("application/json", body.content_type)
             THEN IF body.parses THEN CulversFindInCollection(body.collection, id)
                  ELSE LookupFailure
             ELSE IF Contains("text/xml", body.content_type)
                     \/ Contains("application/xml", body.content_type)
             THEN IF body.parses THEN CulversFindInCollection(body.collection, id)
                  ELSE LookupFailure
             ELSE IF body.parses THEN CulversFindInCollection(body.collection, id)
                  ELSE LookupFailure

\* models.FlavorInfo: the fields of the dataclass, the keywords its
\* constructor accepts.
FlavorInfoFields ==
    {"name", "description", "ingredients", "allergens", "image_url",
     "available_date", "price", "nutrition_info"}

\* The keywords _extract_flavor_from_restaurant_page passes to FlavorInfo
\* (lines 705-712).
CulversFlavorKeywords ==
    {"name", "description", "ingredients", "available_date", "calories", "allergens"}

\* _extract_flavor_from_restaurant_page: the flavor name in a one-element
\* sequence, << >> when it returns None.  A keyword FlavorInfo does not have
\* raises TypeError, which line 718 catches.
CulversExtractFlavorFromRestaurantPage(body) ==
    IF body.next_data # "json" THEN << >>
    ELSE IF ~body.has_path THEN << >>
    ELSE IF body.flavors = << >> THEN << >>
    ELSE IF ~Truthy(Head(body.flavors)) THEN << >>
    ELSE IF CulversFlavorKeywords \subseteq FlavorInfoFields
    THEN <<Head(body.flavors)>>
    ELSE << >>

\* get_current_flavor: one GET of the restaurant page through self.session.
CulversGetCurrentFlavor(id, resps) ==
    IF resps = << >> THEN NeedRequest
    ELSE IF resps[1].status # "ok" THEN FlavorFailure
    ELSE LET flavor_info == CulversExtractFlavorFromRestaurantPage(resps[1].body)
         IN  IF flavor_info = << >> THEN FlavorFailure
             ELSE FlavorResult(Head(flavor_info))

\* get_current_flavor of Goodberry's: one GET of the home page.
GoodberrysGetCurrentFlavor(id, resps) ==
    IF resps = << >> THEN NeedRequest
    ELSE IF resps[1].status # "ok" THEN FlavorFailure
    ELSE IF resps[1].body.fotd_element /\ resps[1].body.flavor_name_tag
    THEN FlavorResult(resps[1].body.text)
    ELSE FlavorFailure

\* The first candidate that passed the tests of a heuristic, else what the
\* next heuristic gives.
FirstOr(passed, otherwise) ==
    IF passed # << >> THEN FlavorResult(Head(passed)) ELSE otherwise

\* get_current_flavor of Oscar's.  The page is the texts its two heuristics
\* visit, in document order: those of the elements the flavor selectors match,
\* and those of the next siblings of the parents of the strings that mention
\* both "flavor" and "today".  A status other than 200, a page without a
\* passing candidate and every exception end in the social media fallback,
\* which raises FlavorNotAvailableError.
OscarsGetCurrentFlavor(id, resps) ==
    IF resps = << >> THEN NeedRequest
    ELSE IF resps[1].status # "ok" THEN FlavorFailure
    ELSE FirstOr(SelectSeq(resps[1].body.selected, LAMBDA flavor_text :
                    /\ Truthy(flavor_text)
                    /\ Len(flavor_text) < 100
                    /\ ~Contains("flavor", Lower(flavor_text))),
         FirstOr(SelectSeq(resps[1].body.siblings, LAMBDA flavor_name :
                    /\ Truthy(flavor_name)
                    /\ Len(flavor_name) < 100),
         FlavorFailure))

\* today.strftime("%b %d").replace(" 0", " ") on the day of the request.
DateStr == "Sep 27"

\* get_current_flavor of Leduc's.  The page is the texts its three heuristics
\* visit: the pieces of the containers of today's date, the elements the
\* flavor selectors match, and the next siblings of the parents of the strings
\* that mention "flavor", "today" or "day".
LeducsGetCurrentFlavor(id, resps) ==
    IF resps = << >> THEN NeedRequest
    ELSE IF resps[1].status # "ok" THEN FlavorFailure
    ELSE FirstOr(SelectSeq(resps[1].body.dated, LAMBDA text :
                    /\ Truthy(text)
                    /\ ~Contains(DateStr, text)
                    /\ Len(text) > 2
                    /\ Len(text) < 50),
         FirstOr(SelectSeq(resps[1].body.selected, LAMBDA flavor_text :
                    /\ Truthy(flavor_text)
                    /\ Len(flavor_text) < 100
                    /\ ~Contains("flavor", Lower(flavor_text))),
         FirstOr(SelectSeq(resps[1].body.siblings, LAMBDA flavor_text :
                    /\ Truthy(flavor_text)
                    /\ Len(flavor_text) < 100
                    /\ ~Contains("flavor", Lower(flavor_text))),
         FlavorFailure)))

\* str.isupper() of one character
IsUpperChar(c) == LowerChar(c) # c

RECURSIVE AnyCapitalisedWord(_, _)
\* any(word[0].isupper() for word in text.split() if len(word) > 2), reading
\* text from position i on.
AnyCapitalisedWord(text, i) ==
    IF i > Len(text) THEN FALSE
    ELSE IF SubSeq(text, i, i) = " " THEN AnyCapitalisedWord(text, i + 1)
    ELSE LET rest == SubSeq(text, i, Len(text))
             ends == {k \in 1..Len(rest) : SubSeq(rest, k, k) = " "}
             word_len == IF ends = {} THEN Len(rest)
                         ELSE (CHOOSE k \in ends : \A m \in ends : k <= m) - 1
         IN  \/ (word_len > 2 /\ IsUpperChar(SubSeq(text, i, i)))
             \/ AnyCapitalisedWord(text, i + word_len)

StartsWith(text, prefix) ==
    Len(text) >= Len(prefix) /\ SubSeq(text, 1, Len(prefix)) = prefix

\* KoppsProvider._extract_flavors_from_section: the emphasised elements
\* (h3, h4, strong, b), then every string of the section.
KoppsExtractFlavorsFromSection(body) ==
    SelectSeq(body.emphasised, LAMBDA flavor_text :
        /\ Len(flavor_text) > 2
        /\ Len(flavor_text) < 50
        /\ ~StartsWith(flavor_text, "TODAY")
        /\ AnyCapitalisedWord(flavor_text, 1))
    \o
    SelectSeq(body.strings, LAMBDA text :
        /\ Len(text) > 2
        /\ Len(text) < 50
        /\ Upper(text) # text
        /\ ~Contains("FLAVOR", Upper(text))
        /\ ~Contains("TODAY", Upper(text))
        /\ AnyCapitalisedWord(text, 1))

\* get_current_flavor of Kopp's.  The page is whether it has a flavors
\* section, the texts _extract_flavors_from_section visits there, and the
\* texts of the parents of the strings that mention "flavor".
KoppsGetCurrentFlavor(id, resps) ==
    IF resps = << >> THEN NeedRequest
    ELSE IF resps[1].status # "ok" THEN FlavorFailure
    ELSE FirstOr(IF resps[1].body.section
                 THEN KoppsExtractFlavorsFromSection(resps[1].body)
                 ELSE << >>,
         FirstOr(SelectSeq(resps[1].body.mentions, LAMBDA flavor_text :
                    /\ Len(flavor_text) < 100
                    /\ ~Contains("flavor", Lower(flavor_text))),
         FlavorFailure))

(***************************************************************************)
(* One adapter instance and the operations called on it.  An operation     *)
(* runs up to its next HTTP request; the vendor's answer resumes it.       *)
(***************************************************************************)
Run(p, op, arg, st, resps) ==
    CASE op = "search_locations" ->
            (CASE p = "culvers" -> CulversSearchLocations(arg, st, resps)
               [] p = "kopps" -> KoppsSearchLocations(arg, st, resps)
               [] p = "oscars" -> OscarsSearchLocations(arg, st, resps)
               [] p = "leducs" -> LeducsSearchLocations(arg, st)
               [] p = "goodberrys" -> GoodberrysSearchLocations(arg))
      [] op = "get_location_by_id" ->
            (CASE p = "culvers" -> CulversGetLocationById(arg, resps)
               [] p = "kopps" -> KoppsGetLocationById(arg)
               [] p = "oscars" -> OscarsGetLocationById(arg)
               [] p = "leducs" -> LeducsGetLocationById(arg)
               [] p = "goodberrys" -> GoodberrysGetLocationById(arg))
      [] op = "get_current_flavor" ->
            (CASE p = "culvers" -> CulversGetCurrentFlavor(arg, resps)
               [] p = "goodberrys" -> GoodberrysGetCurrentFlavor(arg, resps)
               [] p = "kopps" -> KoppsGetCurrentFlavor(arg, resps)
               [] p = "oscars" -> OscarsGetCurrentFlavor(arg, resps)
               [] p = "leducs" -> LeducsGetCurrentFlavor(arg, resps))

\* The inputs of the model.
SearchTerms == {"", "brookfield", "Kirkwood", "madison"}

StateFilters == {"", "WI", "mo"}

UnknownId == "no-such-store"

KnownIds(p) ==
    CASE p = "kopps" -> StoreIds(KoppsKnownLocations)
      [] p = "oscars" -> StoreIds(OscarsKnownLocations)
      [] p = "leducs" -> {LeducsLocation.store_id}
      [] p = "goodberrys" -> StoreIds(GoodberrysKnownLocations)
      [] OTHER -> {"madison-west"}

\* Restaurant records of the Culver's locator page.
CulversRecordWithSlug ==
    [name |-> "Culver's of Madison", city |-> "Madison", state |-> "WI",
     slug |-> "madison-west"]

CulversRecordWithoutId ==
    [title |-> "Sauk City", city |-> "Sauk City", state |-> "WI",
     address |-> "Phillips Blvd"]

CulversRecordWithoutCity == [name |-> "Support Center", state |-> "WI"]

CulversLocatorBodies ==
    {[next_data |-> "absent", listed |-> << >>, nested |-> << >>],
     [next_data |-> "bad_json", listed |-> << >>, nested |-> << >>]}
    \cup
    {[next_data |-> "json", listed |-> l, nested |-> n] :
        l \in {<< >>, <<CulversRecordWithSlug, CulversRecordWithoutId>>,
               <<CulversRecordWithoutCity>>},
        n \in {<< >>, <<CulversRecordWithoutId>>}}

\* Records of the collection the Culver's location API answers with.
CulversApiRecord(id, latitude) ==
    [clientkey |-> id, name |-> "Culver's", city |-> "Madison", state |-> "WI",
     latitude |-> latitude]

CulversApiBodies(id) ==
    {[content_type |-> ct, parses |-> ok, collection |-> c] :
        ct \in {"application/json", "text/xml", "text/html"},
        ok \in BOOLEAN,
        c \in {<< >>,
               <<CulversApiRecord(id, "43.07")>>,
               <<CulversApiRecord("another-store", "43.07")>>,
               <<CulversApiRecord(id, "not-a-number")>>}}

\* Restaurant pages: the __NEXT_DATA__ script as the adapter reads it, and
\* the text of the heading that precedes the "Flavor of the Day" heading of
\* the older page layout ("" when the page has none).
CulversRestaurantBodies ==
    {[next_data |-> p.next_data, has_path |-> p.has_path, flavors |-> p.flavors,
      legacy_heading |-> h] :
        p \in {[next_data |-> "absent", has_path |-> FALSE, flavors |-> << >>],
               [next_data |-> "bad_json", has_path |-> FALSE, flavors |-> << >>],
               [next_data |-> "json", has_path |-> FALSE, flavors |-> << >>],
               [next_data |-> "json", has_path |-> TRUE, flavors |-> << >>],
               [next_data |-> "json", has_path |-> TRUE, flavors |-> <<"">>],
               [next_data |-> "json", has_path |-> TRUE, flavors |-> <<"Turtle Dove">>]},
        h \in {"", "Mint Explosion"}}

KoppsLocationsBodies ==
    {[blocks |-> b, headings |-> n] : b \in BOOLEAN, n \in 0..2}

KoppsMainBodies ==
    {[headers |-> h] :
        h \in {<< >>, <<"Milwaukee">>, <<"Greenfield", "BROOKFIELD">>, <<"Glendale">>}}

OscarsBodies ==
    {[elements |-> e] :
        e \in {<< >>, <<"Hours">>, <<"Kirkwood MO">>,
               <<"Chesterfield MO", "Visit us in ST. LOUIS">>}}

GoodberrysBodies ==
    {[fotd_element |-> a, flavor_name_tag |-> b, text |-> t] :
        a \in BOOLEAN, b \in BOOLEAN,
        t \in {"", "Carolina Crunch", "Flavor of the Day"}}

\* A text of more than 100 characters.
LongText ==
    "Vanilla custard with caramel, fudge, pecans, brownie pieces, cookie dough, "
    \o "marshmallow, toffee and sea salt swirled in"

\* The texts a heuristic can meet, in the order it visits them.
CandidateLists ==
    {<< >>, <<"Tiramisu">>, <<"Flavor of the Day">>, <<"", LongText, "Mint Chip">>}

OscarsFlavorBodies ==
    {[selected |-> a, siblings |-> b] : a \in CandidateLists, b \in CandidateLists}

LeducsFlavorBodies ==
    {[dated |-> a, selected |-> b, siblings |-> c] :
        a \in CandidateLists \cup {<<"Sep 27", "Butter Pecan">>},
        b \in CandidateLists, c \in CandidateLists}

\* The parent of a string that mentions "flavor" has that string in its text.
KoppsFlavorBodies ==
    {[section |-> FALSE, emphasised |-> << >>, strings |-> << >>, mentions |-> m] :
        m \in {<< >>, <<"Flavor of the Day">>, <<"Today's flavors: Tiramisu">>}}
    \cup
    {[section |-> TRUE, emphasised |-> a, strings |-> b, mentions |-> <<"Flavor of the Day">>] :
        a \in CandidateLists \cup {<<"TODAY'S FLAVORS", "tiramisu">>},
        b \in CandidateLists \cup {<<"TODAY", "caramel Cashew">>}}

\* The bodies the vendor can answer request number i of the operation with.
Bodies(p, op, arg, i) ==
    CASE op = "search_locations" /\ p = "culvers" -> CulversLocatorBodies
      [] op = "search_locations" /\ p = "kopps" /\ i = 1 -> KoppsLocationsBodies
      [] op = "search_locations" /\ p = "kopps" /\ i # 1 -> KoppsMainBodies
      [] op = "search_locations" /\ p = "oscars" -> OscarsBodies
      [] op = "get_location_by_id" /\ p = "culvers" -> CulversApiBodies(arg)
      [] op = "get_current_flavor" /\ p = "culvers" -> CulversRestaurantBodies
      [] op = "get_current_flavor" /\ p = "goodberrys" -> GoodberrysBodies
      [] op = "get_current_flavor" /\ p = "kopps" -> KoppsFlavorBodies
      [] op = "get_current_flavor" /\ p = "oscars" -> OscarsFlavorBodies
      [] op = "get_current_flavor" /\ p = "leducs" -> LeducsFlavorBodies
      [] OTHER -> {NoBody}

Responses(p, op, arg, i) ==
    {Response(f, NoBody) : f \in FailureStatuses}
    \cup {Response("ok", b) : b \in Bodies(p, op, arg, i)}

\* The operation stopped with out: at its next request, or at its end.
Settle(op, arg, st, resps, out) ==
    /\ operation' = op
    /\ argument' = arg
    /\ state_filter' = st
    /\ responses' = resps
    /\ result' = out
    /\ op_pc' = IF out.kind = "request" THEN "waiting" ELSE "done"
    /\ found' = IF op = "search_locations" /\ arg = "" /\ out.kind = "list"
                THEN StoreIds(out.value)
                ELSE found
    /\ UNCHANGED <<provider, days>>

\* The operation ran to its next request, or to its end.
Advance(op, arg, st, resps) ==
    Settle(op, arg, st, resps, Run(provider, op, arg, st, resps))

SearchLocations(term, st) ==
    /\ op_pc \in {"idle", "done"}
    /\ ops_left > 0
    /\ ops_left' = ops_left - 1
    /\ Advance("search_locations", term, st, << >>)
    /\ UNCHANGED <<retry_vars, host_vars, setup_vars, coordinator_vars>>

GetLocationById(id) ==
    /\ op_pc \in {"idle", "done"}
    /\ ops_left > 0
    /\ ops_left' = ops_left - 1
    /\ Advance("get_location_by_id", id, "", << >>)
    /\ UNCHANGED <<retry_vars, host_vars, setup_vars, coordinator_vars>>

GetCurrentFlavor(id) ==
    /\ op_pc \in {"idle", "done"}
    /\ ops_left > 0
    /\ ops_left' = ops_left - 1
    /\ Advance("get_current_flavor", id, "", << >>)
    /\ UNCHANGED <<retry_vars, host_vars, setup_vars, coordinator_vars>>

\* The vendor answers the pending request and the operation goes on.
HttpResponse(r) ==
    /\ op_pc = "waiting"
    /\ Advance(operation, argument, state_filter, Append(responses, r))
    /\ UNCHANGED <<retry_vars, ops_left, host_vars, setup_vars, coordinator_vars>>

\* An adapter constructed with its configuration, no operation called yet.
InitProviders ==
    /\ InitHelper
    /\ min_interval = 1
    /\ max_retries \in 0..MaxRetriesBound
    /\ retry_delay = 1
    /\ calls_left = [t \in Tasks |-> 0]
    /\ provider \in Adapters
    /\ ops_left = MaxOps
    /\ InitAdapterIdle
    /\ InitHostIdle

LookupIds == found \cup KnownIds(provider) \cup {UnknownId}

NextProviders ==
    \/ \E term \in SearchTerms : \E st \in StateFilters : SearchLocations(term, st)
    \/ \E id \in LookupIds : GetLocationById(id)
    \/ \E id \in LookupIds : GetCurrentFlavor(id)
    \/ \E r \in Responses(provider, operation, argument, Len(responses) + 1) : HttpResponse(r)

SpecProviders == InitProviders /\ [][NextProviders]_vars

(***************************************************************************)
(* get_upcoming_flavors.                                                   *)
(***************************************************************************)
UpcomingResult(pairs) == [kind |-> "upcoming", value |-> pairs]

Date(year, month, day) == [year |-> year, month |-> month, day |-> day]

\* The order of datetime.date.
DateLess(a, b) ==
    \/ a.year < b.year
    \/ a.year = b.year /\ a.month < b.month
    \/ a.year = b.year /\ a.month = b.month /\ a.day < b.day

\* Days of the month in a year that is not a leap year: date() raises
\* ValueError outside them.
DaysInMonth(month) ==
    IF month = 2 THEN 28 ELSE IF month \in {4, 6, 9, 11} THEN 30 ELSE 31

ValidDate(d) == d.day >= 1 /\ d.day <= DaysInMonth(d.month)

month_map ==
    [Jan |-> 1, Feb |-> 2, Mar |-> 3, Apr |-> 4, May |-> 5, Jun |-> 6,
     Jul |-> 7, Aug |-> 8, Sep |-> 9, Oct |-> 10, Nov |-> 11, Dec |-> 12]

\* month_map.get(month_name, today.month)
MonthOf(month_name, today) ==
    IF month_name \in DOMAIN month_map THEN month_map[month_name] ELSE today.month

\* The date the loop gives an element that names a month and a day: this
\* year's, or next year's when it lies before today.
FlavorDate(month_name, day, today) ==
    Date(IF \/ MonthOf(month_name, today) < today.month
            \/ MonthOf(month_name, today) = today.month /\ day < today.day
         THEN today.year + 1
         ELSE today.year,
         MonthOf(month_name, today), day)

\* One pass of the loop over date_flavor_pairs: the element is skipped when
\* its text holds no date, when date() raises, or when nothing follows a
\* colon; else it is appended while fewer than days entries were kept.
LeducsKeep(upcoming_flavors, pair, d, today) ==
    IF /\ pair.month # << >>
       /\ ValidDate(FlavorDate(pair.month[1], pair.day, today))
       /\ pair.name # << >>
       /\ ~DateLess(FlavorDate(pair.month[1], pair.day, today), today)
       /\ Len(upcoming_flavors) < d
    THEN Append(upcoming_flavors,
                [date |-> FlavorDate(pair.month[1], pair.day, today),
                 name |-> pair.name[1]])
    ELSE upcoming_flavors

RECURSIVE LeducsUpcomingOf(_, _, _, _, _)
LeducsUpcomingOf(pairs, i, upcoming_flavors, d, today) ==
    IF i > Len(pairs) THEN upcoming_flavors
    ELSE LeducsUpcomingOf(pairs, i + 1,
                          LeducsKeep(upcoming_flavors, pairs[i], d, today),
                          d, today)

LeducsGetUpcomingFlavors(d, r, today) ==
    IF r.status # "ok" THEN UpcomingResult(<< >>)
    ELSE UpcomingResult(LeducsUpcomingOf(r.body, 1, << >>, d, today))

\* Kopp's loop builds a FlavorInfo for an element and appends nothing.
KoppsGetUpcomingFlavors(d, r) == UpcomingResult(<< >>)

\* BaseFlavorProvider.get_upcoming_flavors, which Goodberry's inherits and
\* Culver's and Oscar's repeat.
BaseGetUpcomingFlavors(d) == UpcomingResult(<< >>)

\* The adapters whose get_upcoming_flavors fetches a page.
FetchesCalendar(p) == p \in {"leducs", "kopps"}

Today == Date(2025, 9, 26)

\* The elements of a calendar page, in document order; each holds a text
\* like "Sep 27: Cookies & Cream", given by what the regular expressions
\* find in it: the month name and day (month << >> when there is no match)
\* and what follows the first colon (<< >> when there is none).
CalendarEntry(month, day, name) == [month |-> month, day |-> day, name |-> name]

CalendarEntries ==
    {CalendarEntry(<<"Sep">>, 25, <<"Mint Chip">>),
     CalendarEntry(<<"Sep">>, 27, <<"Tiramisu">>),
     CalendarEntry(<<"Sep">>, 28, <<"Mint Chip">>),
     CalendarEntry(<<"Sep">>, 31, <<"Tiramisu">>),
     CalendarEntry(<<"Oct">>, 1, << >>),
     CalendarEntry(<< >>, 0, << >>)}

CalendarBodies ==
    UNION {[1..n -> CalendarEntries] : n \in 0..MaxEntries}

CalendarResponses(p) ==
    IF FetchesCalendar(p)
    THEN {Response(f, NoBody) : f \in FailureStatuses}
         \cup {Response("ok", b) : b \in CalendarBodies}
    ELSE {Response("none", NoBody)}

\* get_upcoming_flavors(id, d): Leduc's and Kopp's fetch their page with
\* session.get, outside the retry helper, and r is its answer; the others
\* make no request.
GetUpcomingFlavors(id, d, r) ==
    /\ op_pc \in {"idle", "done"}
    /\ ops_left > 0
    /\ ops_left' = ops_left - 1
    /\ operation' = "get_upcoming_flavors"
    /\ argument' = id
    /\ state_filter' = ""
    /\ days' = d
    /\ responses' = IF FetchesCalendar(provider) THEN <<r>> ELSE << >>
    /\ result' = CASE provider = "leducs" -> LeducsGetUpcomingFlavors(d, r, Today)
                    [] provider = "kopps" -> KoppsGetUpcomingFlavors(d, r)
                    [] OTHER -> BaseGetUpcomingFlavors(d)
    /\ op_pc' = "done"
    /\ UNCHANGED <<provider, found>>
    /\ UNCHANGED <<retry_vars, host_vars, setup_vars, coordinator_vars>>

InitUpcoming == InitProviders

NextUpcoming ==
    \E id \in LookupIds : \E d \in 0..MaxDays :
        \E r \in CalendarResponses(provider) : GetUpcomingFlavors(id, d, r)

SpecUpcoming == InitUpcoming /\ [][NextUpcoming]_vars

(***************************************************************************)
(* Part 3: the code that calls a provider: test_connection, the update     *)
(* coordinator and the config flow.  The provider is any implementation of *)
(* the BaseFlavorProvider interface: each call it receives returns or      *)
(* raises, and the outcome is an input of the step.                        *)
(***************************************************************************)
\* The base class of each exception class (exceptions.py, aiohttp, builtins).
Superclass(e) ==
    CASE e = "FlavorProviderError" -> "Exception"
      [] e = "FlavorProviderCommunicationError" -> "FlavorProviderError"
      [] e = "FlavorProviderAuthenticationError" -> "FlavorProviderError"
      [] e = "FlavorProviderTimeoutError" -> "FlavorProviderCommunicationError"
      [] e = "LocationNotFoundError" -> "FlavorProviderError"
      [] e = "FlavorNotAvailableError" -> "FlavorProviderError"
      [] e = "RateLimitError" -> "FlavorProviderCommunicationError"
      [] e = "NetworkError" -> "FlavorProviderCommunicationError"
      [] e = "FlavorProviderConfigError" -> "FlavorProviderError"
      [] e = "TimeoutError" -> "Exception"
      [] e = "ClientError" -> "Exception"
      [] e = "ValueError" -> "Exception"
      [] e = "AttributeError" -> "Exception"
      [] e = "TypeError" -> "Exception"
      [] e = "HomeAssistantError" -> "Exception"
      [] e = "UpdateFailed" -> "HomeAssistantError"
      [] e = "ConfigEntryAuthFailed" -> "HomeAssistantError"
      [] e = "ConfigEntryNotReady" -> "HomeAssistantError"
      [] e = "Exception" -> "BaseException"
      [] e = "CancelledError" -> "BaseException"
      [] OTHER -> "object"

RECURSIVE IsInstance(_, _)
\* isinstance(e, cls): what an except clause tests.
IsInstance(e, cls) ==
    IF e = cls THEN TRUE
    ELSE IF e \in {"BaseException", "object"} THEN FALSE
    ELSE IsInstance(Superclass(e), cls)

\* What a provider call of host-side code can raise.
RaisedKinds ==
    ProviderErrors \cup {"TimeoutError", "ClientError", "ValueError", "CancelledError"}

\* The outcomes of provider.get_current_flavor.
FlavorOutcomes ==
    {FlavorResult("Turtle Dove"), FlavorResult("Tiramisu")}
    \cup {Raise(e) : e \in RaisedKinds}

BoolResult(b) == [kind |-> "bool", value |-> IF b THEN "True" ELSE "False"]

ProviderCall(by, op, arg, st, out) ==
    [by |-> by, op |-> op, arg |-> arg, state |-> st, outcome |-> out]

\* The mutant: the except clause misses the exceptions of the provider.
TestConnectionResult_ProviderErrorsPropagate(out) ==
    IF out.kind # "raise" THEN BoolResult(TRUE)
    ELSE IF IsInstance(out.value, "FlavorProviderError") THEN out
    ELSE IF IsInstance(out.value, "Exception") THEN BoolResult(FALSE)
    ELSE out

\* BaseFlavorProvider.test_connection, given the outcome of get_current_flavor.
TestConnectionResult(out) ==
    IF out.kind # "raise" THEN BoolResult(TRUE)
    ELSE IF IsInstance(out.value, "Exception") THEN BoolResult(FALSE)
    ELSE out

TestConnection(id, out) ==
    /\ host_left > 0
    /\ host_left' = host_left - 1
    /\ host_op' = "test_connection"
    /\ host_calls' = Append(host_calls, ProviderCall("test_connection", "get_current_flavor", id, "", out))
    /\ host_result' = TestConnectionResult(out)
    /\ UNCHANGED <<location_id, flow_step, flow_provider_id, flow_locations,
                   flow_errors, flow_entry, configured, select_input>>
    /\ UNCHANGED <<retry_vars, provider_vars>>
    /\ UNCHANGED <<setup_vars, coordinator_vars>>

\* The mutant: authentication failures are reported as failed updates.
UpdateResult_AuthAsFailed(out) ==
    IF out.kind # "raise" THEN out
    ELSE IF IsInstance(out.value, "Exception") THEN Raise("UpdateFailed")
    ELSE out

\* The mutant: an error of the provider is logged and None is returned.
UpdateResult_FailureAsNone(out) ==
    IF out.kind # "raise" THEN out
    ELSE IF IsInstance(out.value, "FlavorProviderAuthenticationError")
    THEN Raise("ConfigEntryAuthFailed")
    ELSE IF IsInstance(out.value, "FlavorProviderError")
    THEN [kind |-> "none", value |-> ""]
    ELSE IF IsInstance(out.value, "Exception") THEN Raise("UpdateFailed")
    ELSE out

\* FlavorUpdateCoordinator._async_update_data, given the outcome of
\* get_current_flavor: the except clauses in their order.
UpdateResult(out) ==
    IF out.kind # "raise" THEN out
    ELSE IF IsInstance(out.value, "FlavorProviderAuthenticationError")
    THEN Raise("ConfigEntryAuthFailed")
    ELSE IF IsInstance(out.value, "FlavorProviderError") THEN Raise("UpdateFailed")
    ELSE IF IsInstance(out.value, "Exception") THEN Raise("UpdateFailed")
    ELSE out

\* DataUpdateCoordinator.data after a refresh, given what _async_update_data
\* returned or raised: a returned value is stored, an exception leaves the
\* data as it was.
RefreshedData(data, res) ==
    IF res.kind = "raise" THEN data
    ELSE IF res.kind = "flavor" THEN <<[name |-> res.value]>>
    ELSE << >>

\* DataUpdateCoordinator.last_update_success after a refresh: a cancellation
\* is no Exception and leaves it as it was.
RefreshSucceeded(success, res) ==
    IF res.kind # "raise" THEN TRUE
    ELSE IF IsInstance(res.value, "Exception") THEN FALSE
    ELSE success

\* One refresh of the coordinator: _async_update_data and the bookkeeping of
\* DataUpdateCoordinator around it.
AsyncUpdateData(out) ==
    /\ host_left > 0
    /\ host_left' = host_left - 1
    /\ host_op' = "_async_update_data"
    /\ host_calls' = Append(host_calls,
                            ProviderCall("_async_update_data", "get_current_flavor",
                                         location_id, "", out))
    /\ host_result' = UpdateResult(out)
    /\ UNCHANGED <<location_id, flow_step, flow_provider_id, flow_locations,
                   flow_errors, flow_entry, configured, select_input>>
    /\ coordinator_data' = RefreshedData(coordinator_data, UpdateResult(out))
    /\ last_update_success' = RefreshSucceeded(last_update_success, UpdateResult(out))
    /\ UNCHANGED <<retry_vars, provider_vars>>
    /\ UNCHANGED <<setup_vars, sensor_state>>

(***************************************************************************)
(* The config flow (config_flow.py).  A step runs when the form it showed  *)
(* is submitted; it ends by showing a form, creating the entry or aborting. *)
(***************************************************************************)
RECURSIVE LStrip(_)
LStrip(s) ==
    IF Len(s) > 0 /\ SubSeq(s, 1, 1) = " " THEN LStrip(SubSeq(s, 2, Len(s))) ELSE s

RECURSIVE RStrip(_)
RStrip(s) ==
    IF Len(s) > 0 /\ SubSeq(s, Len(s), Len(s)) = " "
    THEN RStrip(SubSeq(s, 1, Len(s) - 1))
    ELSE s

\* str.strip()
Strip(s) == RStrip(LStrip(s))

\* config_flow.PROVIDER_CLASSES, the options of USER_SCHEMA.
FlowProviders == {"culvers", "kopps", "oscars", "goodberrys"}

MIN_SEARCH_TERM_LENGTH == 2

DEFAULT_UPDATE_INTERVAL == 30

\* The locations a provider's search can answer with.
OfferedLocations ==
    << LocationInfo("test123", "Test Culver's", "123 Main St", "Madison", "WI", "53703"),
       LocationInfo("kopps-brookfield", "Kopp's Frozen Custard - Brookfield",
                    "18800 W. Bluemound Rd.", "Brookfield", "WI", "") >>

\* The outcomes of provider.search_locations.
SearchOutcomes ==
    {ListResult(SubSeq(OfferedLocations, 1, n)) : n \in 0..Len(OfferedLocations)}
    \cup {Raise(e) : e \in RaisedKinds}

\* What the user can submit.
SubmittedTerms == {"", " ", "m ", "Madison"}

SubmittedStates == {"", "WI"}

SubmittedIds == {"test123", "kopps-brookfield", "no-such-store"}

SubmittedNames == {<< >>, <<"My Custard">>}

SubmittedIntervals == {<< >>, <<5>>, <<60>>}

FormResult(step_id) == [kind |-> "form", value |-> step_id]

NoErrors == {}

FieldError(field, error) == {<<field, error>>}

\* async_show_form(step_id, errors): the flow waits at that form.
ShowForm(step_id, errors) ==
    /\ flow_step' = step_id
    /\ flow_errors' = errors
    /\ host_result' = FormResult(step_id)

\* One more host-side operation.
HostStep(op) ==
    /\ host_left > 0
    /\ host_left' = host_left - 1
    /\ host_op' = op
    /\ UNCHANGED <<location_id, retry_vars, provider_vars>>
    /\ UNCHANGED <<setup_vars, coordinator_vars>>

\* The flow is started: async_step_user(None) shows the provider form.
FlowInit ==
    /\ flow_step = "none"
    /\ HostStep("async_step_user")
    /\ ShowForm("user", NoErrors)
    /\ UNCHANGED <<host_calls, flow_provider_id, flow_locations, flow_entry,
                   configured, select_input>>

\* async_step_user with a provider chosen.  For Kopp's and Oscar's it awaits
\* search_locations("") outside any try: what the call raises leaves the step.
StepUser(provider_id, out) ==
    /\ flow_step = "user"
    /\ HostStep("async_step_user")
    /\ flow_provider_id' = provider_id
    /\ IF provider_id \in {"kopps", "oscars"}
       THEN /\ host_calls' = Append(host_calls, ProviderCall("async_step_user", "search_locations", "", "", out))
            /\ IF out.kind = "raise"
               THEN /\ host_result' = out
                    /\ UNCHANGED <<flow_step, flow_errors, flow_locations>>
               ELSE /\ flow_locations' = out.value
                    /\ ShowForm("location_select", NoErrors)
       ELSE /\ ShowForm("location_search", NoErrors)
            /\ UNCHANGED <<host_calls, flow_locations>>
    /\ UNCHANGED <<flow_entry, configured, select_input>>

\* The errors of the except clauses of async_step_location_search.
SearchError(e) ==
    IF IsInstance(e, "FlavorProviderError") THEN "provider_error"
    ELSE IF IsInstance(e, "TimeoutError") \/ IsInstance(e, "ClientError")
    THEN "network_error"
    ELSE "unknown_error"

\* The mutant: an empty search result goes on to the selection form.
EmptySearchStep_Select == "location_select"

\* The form shown after a search that found nothing.
EmptySearchStep == "location_search"

\* async_step_location_search with the form submitted.
StepLocationSearch(term, st, out) ==
    LET search_term == Strip(term)
    IN  /\ flow_step = "location_search"
        /\ HostStep("async_step_location_search")
        /\ IF ~Truthy(search_term)
           THEN /\ ShowForm("location_search", FieldError("search_term", "required"))
                /\ UNCHANGED <<host_calls, flow_locations>>
           ELSE IF Len(search_term) < MIN_SEARCH_TERM_LENGTH
           THEN /\ ShowForm("location_search", FieldError("search_term", "too_short"))
                /\ UNCHANGED <<host_calls, flow_locations>>
           ELSE /\ host_calls' = Append(host_calls,
                        ProviderCall("async_step_location_search",
                                     "search_locations", search_term, st, out))
                /\ IF out.kind = "raise"
                   THEN IF IsInstance(out.value, "Exception")
                        THEN /\ ShowForm("location_search",
                                    FieldError("search_term", SearchError(out.value)))
                             /\ UNCHANGED flow_locations
                        ELSE /\ host_result' = out
                             /\ UNCHANGED <<flow_step, flow_errors, flow_locations>>
                   ELSE IF out.value = << >>
                   THEN /\ ShowForm(EmptySearchStep,
                                    FieldError("search_term", "no_locations_found"))
                        /\ UNCHANGED flow_locations
                   ELSE /\ flow_locations' = out.value
                        /\ ShowForm("location_select", NoErrors)
        /\ UNCHANGED <<flow_provider_id, flow_entry, configured, select_input>>

\* next((loc for loc in self.locations if loc.store_id == location_id), None)
SelectedLocation(locations, id) ==
    SelectSeq(locations, LAMBDA loc : loc.store_id = id)

\* The unique id of the entry: f"{self.provider_id}_{location_id}"
UniqueId(provider_id, id) == provider_id \o "_" \o id

\* The mutant: the flow never finds its unique id configured.
UniqueIdConfigured_Never(unique_id) == FALSE

\* _abort_if_unique_id_configured(): an entry holds the unique id of the flow.
UniqueIdConfigured(unique_id) == unique_id \in configured

\* user_input.get(key, default) of an optional field
GetOr(field, default) == IF field = << >> THEN default ELSE Head(field)

\* The mutant: the title of the entry is the name the user typed.
EntryTitle_UserName(selected_location, name) ==
    GetOr(name, selected_location.name)

\* The title async_step_location_select gives the entry.
EntryTitle(selected_location, name) == selected_location.name

\* The entry async_create_entry is called with.
Entry(selected_location, id, name, interval) ==
    [title |-> EntryTitle(selected_location, name),
     provider |-> flow_provider_id,
     location_id |-> id,
     zip_code |-> selected_location.zip_code,
     update_interval |-> GetOr(interval, DEFAULT_UPDATE_INTERVAL)]

\* async_step_location_select with the form submitted.
StepLocationSelect(id, name, interval) ==
    LET selected_location == SelectedLocation(flow_locations, id)
    IN  /\ flow_step = "location_select"
        /\ HostStep("async_step_location_select")
        /\ select_input' = <<[location_id |-> id, name |-> name,
                              update_interval |-> interval]>>
        /\ IF selected_location = << >>
           THEN /\ ShowForm("location_select", FieldError("location_id", "invalid_location"))
                /\ UNCHANGED <<flow_entry, configured>>
           ELSE IF UniqueIdConfigured(UniqueId(flow_provider_id, id))
           THEN /\ flow_step' = "abort"
                /\ host_result' = [kind |-> "abort", value |-> "already_configured"]
                /\ UNCHANGED <<flow_errors, flow_entry, configured>>
           ELSE /\ flow_step' = "create_entry"
                /\ flow_entry' = <<Entry(Head(selected_location), id, name, interval)>>
                /\ host_result' = [kind |-> "create_entry",
                                   value |-> EntryTitle(Head(selected_location), name)]
                /\ configured' = configured \cup {UniqueId(flow_provider_id, id)}
                /\ UNCHANGED flow_errors
        /\ UNCHANGED <<host_calls, flow_provider_id, flow_locations>>

\* The provider_name property of each provider.
ProviderName(provider_id) ==
    CASE provider_id = "culvers" -> "Culver's"
      [] provider_id = "kopps" -> "Kopp's Frozen Custard"
      [] provider_id = "oscars" -> "Oscar's Frozen Custard"
      [] provider_id = "leducs" -> "Leduc's Frozen Custard"
      [] provider_id = "goodberrys" -> "Goodberry's Frozen Custard"

\* The mutant: a sensor without data shows no state.
NativeValue_NoneWithoutData(data) ==
    IF data = << >> THEN "None" ELSE Head(data).name

\* FlavorOfTheDaySensor.native_value
NativeValue(data) ==
    IF data = << >> THEN "Unknown" ELSE Head(data).name

\* FlavorOfTheDaySensor.extra_state_attributes, as the set of its items; the
\* optional fields of FlavorInfo, which no adapter of the model fills, are
\* left out.
ExtraStateAttributes(data, provider_id) ==
    IF data = << >> THEN {}
    ELSE {<<"name", Head(data).name>>,
          <<"provider", ProviderName(provider_id)>>,
          <<"location_id", location_id>>}

\* Home Assistant reads the state of a sensor.
SensorRead(provider_id) ==
    /\ provider_id \in sensors
    /\ host_op' = "native_value"
    /\ sensor_state' = <<[native_value |-> NativeValue(coordinator_data),
                          extra_state_attributes |->
                              ExtraStateAttributes(coordinator_data, provider_id)]>>
    /\ UNCHANGED <<retry_vars, provider_vars, setup_vars, coordinator_data,
                   last_update_success, host_result, host_calls, location_id,
                   flow_step, flow_provider_id, flow_locations, flow_errors,
                   flow_entry, configured, select_input, host_left>>

\* The retry helper and the adapter are idle while the host-side code runs.
InitHostSide ==
    /\ InitHelper
    /\ min_interval = 1
    /\ max_retries = 0
    /\ retry_delay = 1
    /\ calls_left = [t \in Tasks |-> 0]
    /\ provider = "culvers"
    /\ ops_left = 0
    /\ InitAdapterIdle
    /\ host_op = "none"
    /\ host_result = [kind |-> "none", value |-> ""]
    /\ host_calls = << >>
    /\ flow_step = "none"
    /\ flow_provider_id = ""
    /\ flow_locations = << >>
    /\ flow_errors = NoErrors
    /\ flow_entry = << >>
    /\ select_input = << >>
    /\ InitSetupIdle

\* A coordinator built for a location and a sensor constructed on it, as
\* tests/test_sensor.py constructs them.
InitHost ==
    /\ InitHostSide
    /\ location_id \in {"test123", "no-such-store"}
    /\ configured = {}
    /\ sensors = {provider}
    /\ host_left = MaxHostOps

NextHost ==
    \/ \E id \in SubmittedIds : \E out \in FlavorOutcomes : TestConnection(id, out)
    \/ \E out \in FlavorOutcomes : AsyncUpdateData(out)
    \/ SensorRead(provider)

SpecHost == InitHost /\ [][NextHost]_vars

\* A new config flow, and the entries Home Assistant holds already.
InitFlow ==
    /\ InitHostSide
    /\ location_id = ""
    /\ configured \in {{}, {UniqueId("kopps", "kopps-brookfield")},
                       {UniqueId("culvers", "test123")}}
    /\ sensors = {}
    /\ host_left = MaxFlowSteps

NextFlow ==
    \/ FlowInit
    \/ \E provider_id \in FlowProviders : \E out \in SearchOutcomes :
            StepUser(provider_id, out)
    \/ \E term \in SubmittedTerms : \E st \in SubmittedStates : \E out \in SearchOutcomes :
            StepLocationSearch(term, st, out)
    \/ \E id \in SubmittedIds : \E name \in SubmittedNames :
       \E interval \in SubmittedIntervals :
            StepLocationSelect(id, name, interval)

SpecFlow == InitFlow /\ [][NextFlow]_vars

(***************************************************************************)
(* Setting an entry up (__init__.py) and the sensor (sensor.py).  Every    *)
(* line of async_setup_entry that constructs, awaits or stores is a step.  *)
(***************************************************************************)
\* __init__.PROVIDER_CLASSES: the provider class of each provider id.
PROVIDER_CLASSES ==
    [culvers |-> "CulversProvider", kopps |-> "KoppsProvider",
     oscars |-> "OscarsProvider", leducs |-> "LeducsProvider"]

\* The provider_id property of each provider class.
ClassProviderId(provider_class) ==
    CASE provider_class = "CulversProvider" -> "culvers"
      [] provider_class = "KoppsProvider" -> "kopps"
      [] provider_class = "OscarsProvider" -> "oscars"
      [] provider_class = "LeducsProvider" -> "leducs"
      [] provider_class = "GoodberrysProvider" -> "goodberrys"

\* The mutant: the steps of the setup with the data stored and the platform
\* forwarded before the first refresh.
SetupOrder_RefreshLast ==
    <<"provider", "coordinator", "runtime_data", "forward", "first_refresh", "return">>

\* The steps of async_setup_entry after the test of the provider id, in the
\* order of its lines.
SetupOrder ==
    <<"provider", "coordinator", "first_refresh", "runtime_data", "forward", "return">>

\* The step after a step of the setup.
StepAfter(step) ==
    LET i == CHOOSE k \in DOMAIN SetupOrder : SetupOrder[k] = step
    IN  IF i = Len(SetupOrder) THEN "returned" ELSE SetupOrder[i + 1]

\* The mutant: an unknown provider id is reported as a ValueError.
UnsupportedProviderError_ValueError == "ValueError"

\* What async_setup_entry raises for a provider id outside PROVIDER_CLASSES.
UnsupportedProviderError == "ConfigEntryNotReady"

\* A step of the setup leaves the config flow, the helper and the adapter alone.
SetupFrame ==
    UNCHANGED <<retry_vars, provider_vars, host_op, host_result, flow_step,
                flow_provider_id, flow_locations, flow_errors, flow_entry,
                configured, select_input, host_left, entry_data, sensor_state>>

\* async_setup_entry up to the test of the provider id.
SetupEntry ==
    /\ setup_pc = "none"
    /\ IF entry_data.provider \notin DOMAIN PROVIDER_CLASSES
       THEN /\ setup_result' = Raise(UnsupportedProviderError)
            /\ setup_pc' = "raised"
       ELSE /\ setup_pc' = SetupOrder[1]
            /\ UNCHANGED setup_result
    /\ UNCHANGED <<setup_provider, setup_coordinator, runtime_data, platforms, sensors,
                   host_calls, location_id, coordinator_data, last_update_success>>
    /\ SetupFrame

\* provider = provider_class(session, entry.data)
SetupProvider ==
    /\ setup_pc = "provider"
    /\ setup_provider' = <<ClassProviderId(PROVIDER_CLASSES[entry_data.provider])>>
    /\ setup_pc' = StepAfter("provider")
    /\ UNCHANGED <<setup_coordinator, runtime_data, platforms, sensors, setup_result,
                   host_calls, location_id, coordinator_data, last_update_success>>
    /\ SetupFrame

\* coordinator = FlavorUpdateCoordinator(hass, provider, location_id, ...)
SetupCoordinator ==
    /\ setup_pc = "coordinator"
    /\ setup_coordinator' = TRUE
    /\ location_id' = entry_data.location_id
    /\ setup_pc' = StepAfter("coordinator")
    /\ UNCHANGED <<setup_provider, runtime_data, platforms, sensors, setup_result,
                   host_calls, coordinator_data, last_update_success>>
    /\ SetupFrame

\* What async_config_entry_first_refresh raises when the refresh raised:
\* UpdateFailed becomes ConfigEntryNotReady, the rest propagates.
FirstRefreshError(res) ==
    IF res = Raise("UpdateFailed") THEN Raise("ConfigEntryNotReady") ELSE res

\* await coordinator.async_config_entry_first_refresh()
FirstRefresh(out) ==
    /\ setup_pc = "first_refresh"
    /\ host_calls' = Append(host_calls,
                            ProviderCall("_async_update_data", "get_current_flavor",
                                         location_id, "", out))
    /\ coordinator_data' = RefreshedData(coordinator_data, UpdateResult(out))
    /\ last_update_success' = RefreshSucceeded(last_update_success, UpdateResult(out))
    /\ IF UpdateResult(out).kind = "raise"
       THEN /\ setup_result' = FirstRefreshError(UpdateResult(out))
            /\ setup_pc' = "raised"
       ELSE /\ setup_pc' = StepAfter("first_refresh")
            /\ UNCHANGED setup_result
    /\ UNCHANGED <<setup_provider, setup_coordinator, runtime_data, platforms, sensors,
                   location_id>>
    /\ SetupFrame

\* entry.runtime_data = FlavorOfTheDayData(coordinator=..., provider=...)
SetRuntimeData ==
    /\ setup_pc = "runtime_data"
    /\ runtime_data' = <<[coordinator |-> setup_coordinator,
                          provider |-> Head(setup_provider)]>>
    /\ setup_pc' = StepAfter("runtime_data")
    /\ UNCHANGED <<setup_provider, setup_coordinator, platforms, sensors, setup_result,
                   host_calls, location_id, coordinator_data, last_update_success>>
    /\ SetupFrame

\* await hass.config_entries.async_forward_entry_setups(entry, PLATFORMS):
\* async_setup_entry of sensor.py reads entry.runtime_data.coordinator and adds
\* the sensor; with runtime_data unset the read raises AttributeError.
ForwardEntrySetups ==
    /\ setup_pc = "forward"
    /\ platforms' = {"sensor"}
    /\ IF runtime_data = << >>
       THEN /\ setup_result' = Raise("AttributeError")
            /\ setup_pc' = "raised"
            /\ UNCHANGED sensors
       ELSE /\ sensors' = sensors \cup {Head(runtime_data).provider}
            /\ setup_pc' = StepAfter("forward")
            /\ UNCHANGED setup_result
    /\ UNCHANGED <<setup_provider, setup_coordinator, runtime_data,
                   host_calls, location_id, coordinator_data, last_update_success>>
    /\ SetupFrame

\* return True
SetupReturn ==
    /\ setup_pc = "return"
    /\ setup_result' = BoolResult(TRUE)
    /\ setup_pc' = StepAfter("return")
    /\ UNCHANGED <<setup_provider, setup_coordinator, runtime_data, platforms, sensors,
                   host_calls, location_id, coordinator_data, last_update_success>>
    /\ SetupFrame

\* The coordinator refreshes on its interval while an entity listens to it.
Refresh(out) ==
    /\ sensors # {}
    /\ AsyncUpdateData(out)

\* The provider ids an entry can hold: those of both registries and the one
\* of tests/test_init.py.
EntryProviders == FlowProviders \cup DOMAIN PROVIDER_CLASSES \cup {"invalid_provider"}

\* An entry is about to be set up.
InitSetup ==
    /\ InitHelper
    /\ min_interval = 1
    /\ max_retries = 0
    /\ retry_delay = 1
    /\ calls_left = [t \in Tasks |-> 0]
    /\ provider = "culvers"
    /\ ops_left = 0
    /\ InitAdapterIdle
    /\ host_op = "none"
    /\ host_result = [kind |-> "none", value |-> ""]
    /\ host_calls = << >>
    /\ location_id = ""
    /\ flow_step = "none"
    /\ flow_provider_id = ""
    /\ flow_locations = << >>
    /\ flow_errors = NoErrors
    /\ flow_entry = << >>
    /\ configured = {}
    /\ select_input = << >>
    /\ host_left = MaxRefreshes
    /\ entry_data \in {[provider |-> p, location_id |-> "test123"] : p \in EntryProviders}
    /\ setup_pc = "none"
    /\ setup_provider = << >>
    /\ setup_coordinator = FALSE
    /\ runtime_data = << >>
    /\ platforms = {}
    /\ sensors = {}
    /\ setup_result = [kind |-> "none", value |-> ""]
    /\ coordinator_data = << >>
    /\ last_update_success = TRUE
    /\ sensor_state = << >>

NextSetup ==
    \/ SetupEntry
    \/ SetupProvider
    \/ SetupCoordinator
    \/ \E out \in FlavorOutcomes : FirstRefresh(out)
    \/ SetRuntimeData
    \/ ForwardEntrySetups
    \/ SetupReturn
    \/ \E out \in FlavorOutcomes : Refresh(out)
    \/ \E provider_id \in EntryProviders : SensorRead(provider_id)

SpecSetup == InitSetup /\ [][NextSetup]_vars

(***************************************************************************)
(* Properties of the retry helper.                                         *)
(***************************************************************************)
Finished(t) == pc[t] \in {"returned", "raised"}

\* request_func raises a transport error on its first k invocations and
\* returns on invocation k+1.
FailsThenSucceeds(s, k) ==
    /\ k + 1 \in DOMAIN s
    /\ \A i \in 1..k : s[i] \in TransportErrors
    /\ s[k + 1] = "ok"

\* request_func raises a transport error on every invocation.
AlwaysFails(s) == \A i \in DOMAIN s : s[i] \in TransportErrors

\* C1: when request_func raises a transport error on its first k < max_retries
\* invocations and then returns a value, the finished call has returned that
\* value and request_func was invoked exactly k+1 times.
C1_SucceedsAfterKFailures ==
    \A t \in Tasks : \A k \in 0..MaxRetriesBound :
        (Finished(t) /\ k < max_retries /\ FailsThenSucceeds(script[t], k))
            => /\ pc[t] = "returned"
               /\ outcome[t] = [kind |-> "value", by |-> k + 1]
               /\ invocations[t] = k + 1

\* A call that returned the value of the second invocation after one failure.
C1_Witness ==
    \E t \in Tasks :
        /\ pc[t] = "returned"
        /\ max_retries = 2
        /\ FailsThenSucceeds(script[t], 1)
        /\ invocations[t] = 2

\* C2: when request_func raises a transport error on every invocation, the
\* finished call has invoked it exactly max_retries+1 times and raised the
\* exception of the last invocation itself, with its own kind.
C2_ReraisesLastAfterAllAttempts ==
    \A t \in Tasks :
        (Finished(t) /\ script[t] # << >> /\ AlwaysFails(script[t]))
            => /\ pc[t] = "raised"
               /\ invocations[t] = max_retries + 1
               /\ outcome[t] = [kind |-> script[t][max_retries + 1],
                                by |-> max_retries + 1]
               /\ outcome[t] = last_exception[t]

\* A call that gave up after three failed attempts of mixed transport kinds.
C2_Witness ==
    \E t \in Tasks :
        /\ pc[t] = "raised"
        /\ max_retries = 2
        /\ script[t] = <<"timeout", "client_error", "timeout">>
        /\ invocations[t] = 3

\* Invocation i of the current call has come back raising a non-transport error.
RaisedOther(t, i) ==
    /\ i \in DOMAIN script[t]
    /\ script[t][i] = "other_error"
    /\ \/ invocations[t] > i
       \/ invocations[t] = i /\ pc[t] # "in_request"

\* C3: once an invocation has raised a non-transport exception the call has
\* raised that exception: request_func is not invoked again and no backoff
\* sleep follows (the only backoffs are those of the earlier attempts).
C3_NonTransportPropagatesAtOnce ==
    \A t \in Tasks : \A i \in 1..(MaxRetriesBound + 1) :
        RaisedOther(t, i)
            => /\ pc[t] = "raised"
               /\ outcome[t] = [kind |-> "other_error", by |-> i]
               /\ invocations[t] = i
               /\ Len(backoff_slept[t]) = i - 1

\* A non-transport error on the second attempt, with retries left.
C3_Witness ==
    \E t \in Tasks :
        /\ max_retries = 2
        /\ RaisedOther(t, 2)
        /\ script[t][1] \in TransportErrors
        /\ pc[t] = "raised"

\* C4: consecutive dispatches of a task issuing its attempts one after the
\* other are at least min_interval apart.
C4_SequentialDispatchGap ==
    \A t \in Tasks : own_gap[t] # NoGap => own_gap[t] >= min_interval

\* The first dispatch of a second call, issued back to back with the first
\* under min_interval = 2, after the rate limiter slept.
C4_Witness ==
    /\ min_interval = 2
    /\ calls_left[1] = MaxCalls - 2
    /\ invocations[1] = 1
    /\ pc[1] = "in_request"
    /\ own_gap[1] = 2

\* C5: no two dispatches of the instance, by whichever tasks, are less than
\* min_interval apart.
C5_ConcurrentDispatchGap ==
    any_gap # NoGap => any_gap >= min_interval

(***************************************************************************)
(* Properties of the vendor adapters.                                      *)
(***************************************************************************)
Done(op) == operation = op /\ op_pc = "done"

\* Every request of the operation failed at the transport.
AllTransportFailures ==
    /\ responses # << >>
    /\ \A i \in DOMAIN responses : responses[i].status \in TransportFailures

\* C6: when the transport fails on every attempt, get_current_flavor has
\* attempted its request max_retries+1 times before it reports the error.
C6_FlavorRequestRetried ==
    (Done("get_current_flavor") /\ AllTransportFailures)
        => Len(responses) = max_retries + 1

\* C7: when the request of get_current_flavor fails at the transport, the
\* operation raises a FlavorProviderCommunicationError kind.
C7_UnreachableIsCommunicationError ==
    (Done("get_current_flavor") /\ AllTransportFailures)
        => /\ result.kind = "raise"
           /\ result.value \in CommunicationErrors

\* Some request of the operation got no usable answer.
SomeRequestFailed ==
    \E i \in DOMAIN responses : responses[i].status # "ok"

\* The operation ended on a request that got no usable answer: it raised in
\* the transport or while the body was read, it answered with a status other
\* than 200 and no request followed, or (Culver's) the embedded JSON of the
\* answer does not parse.
SearchEndedOnFailure ==
    /\ responses # << >>
    /\ \/ \E i \in DOMAIN responses :
            responses[i].status \in TransportFailures \cup {"decode_error"}
       \/ responses[Len(responses)].status # "ok"
       \/ /\ provider = "culvers"
          /\ responses[1].status = "ok"
          /\ responses[1].body.next_data = "bad_json"

\* C8 as stated: search_locations never raises, and returns the empty list
\* whenever one of its requests failed at the transport, answered with a
\* status other than 200, or could not be parsed.
C8_AnyFailedRequestEmpty ==
    Done("search_locations")
        => /\ result.kind = "list"
           /\ SomeRequestFailed => result.value = << >>

\* C8, amended: search_locations never raises; it returns the empty list when
\* a request raised, when the last request it issued answered with a status
\* other than 200, and when the answer cannot be parsed.
C8_SearchNeverRaises ==
    Done("search_locations")
        => /\ result.kind = "list"
           /\ SearchEndedOnFailure => result.value = << >>

\* A search whose only request timed out and that returned the empty list.
C8_Witness ==
    /\ Done("search_locations")
    /\ provider = "culvers"
    /\ Len(responses) = 1
    /\ responses[1].status = "timeout"
    /\ result = ListResult(<< >>)

\* The vendor knows the id: it is in the adapter's table or, for Culver's,
\* in the collection the location API answered with.
VendorKnows(id) ==
    IF provider = "culvers"
    THEN /\ responses # << >>
         /\ responses[1].status = "ok"
         /\ \E i \in DOMAIN responses[1].body.collection :
                Get(responses[1].body.collection[i], "clientkey") = id
    ELSE id \in KnownIds(provider)

\* C9: get_location_by_id on an id the vendor does not know raises
\* LocationNotFoundError, whatever the outcome of the HTTP request.
C9_UnknownIdNotFound ==
    (Done("get_location_by_id") /\ ~VendorKnows(argument))
        => result = Raise("LocationNotFoundError")

\* Culver's lookup of an unknown id whose request failed at the transport.
C9_Witness ==
    /\ Done("get_location_by_id")
    /\ provider = "culvers"
    /\ argument = UnknownId
    /\ responses # << >>
    /\ responses[1].status = "client_error"
    /\ result = Raise("LocationNotFoundError")

\* The adapter's fixed table of store ids (Culver's has none).
FixedTable == IF provider = "culvers" THEN {} ELSE KnownIds(provider)

\* The lookup was not stopped by the vendor: it needed no request, or the
\* location API answered with a well-formed record of the id.
LookupAnswered ==
    \/ responses = << >>
    \/ /\ responses[1].status = "ok"
       /\ responses[1].body.parses
       /\ \E i \in DOMAIN responses[1].body.collection :
            /\ Get(responses[1].body.collection[i], "clientkey") = argument
            /\ CulversParseLocationData(responses[1].body.collection[i]) # << >>

\* C10: get_location_by_id accepts every store_id of the latest
\* search_locations("") and of the fixed table, and returns a LocationInfo
\* with that store_id.
C10_SearchIdsAccepted ==
    (Done("get_location_by_id") /\ argument \in found \cup FixedTable /\ LookupAnswered)
        => /\ result.kind = "location"
           /\ result.value.store_id = argument

\* The ids get_location_by_id of the adapter accepts without asking the vendor.
ValidLocation(id) == id \in KnownIds(provider)

\* C11: get_current_flavor on a store_id that is no location of the vendor
\* raises LocationNotFoundError.
C11_InvalidLocationRejected ==
    (Done("get_current_flavor") /\ ~ValidLocation(argument))
        => result = Raise("LocationNotFoundError")

\* The adapters the spec describes as searching a fixed location table.
FixedTableAdapters == {"kopps", "oscars", "leducs", "goodberrys"}

AdapterTable ==
    CASE provider = "kopps" -> KoppsKnownLocations
      [] provider = "oscars" -> OscarsKnownLocations
      [] provider = "leducs" -> <<LeducsLocation>>
      [] provider = "goodberrys" -> GoodberrysKnownLocations
      [] OTHER -> << >>

\* The entries of the table whose name, city or address contains the term,
\* case-insensitively.
TableMatches(table, term) ==
    SelectSeq(table, LAMBDA loc :
        \/ Contains(Lower(term), Lower(loc.name))
        \/ Contains(Lower(term), Lower(loc.city))
        \/ Contains(Lower(term), Lower(loc.address)))

\* C12: on a fixed-table adapter whose requests (if any) all succeeded,
\* search_locations(term) without state filter returns exactly the entries of
\* the table that match the term; search_locations("") returns the table.
C12_SearchFiltersFixedTable ==
    (/\ Done("search_locations")
     /\ provider \in FixedTableAdapters
     /\ state_filter = ""
     /\ ~SomeRequestFailed)
        => result = ListResult(TableMatches(AdapterTable, argument))

(***************************************************************************)
(* Properties of the host-side code.                                       *)
(***************************************************************************)
\* The outcome of the provider call made last.
LastOutcome == host_calls[Len(host_calls)].outcome

RaisedException(out) == out.kind = "raise" /\ IsInstance(out.value, "Exception")

\* C13: test_connection returns True when get_current_flavor returned and
\* False when it raised an Exception of whatever class; the exception does
\* not leave test_connection.
C13_TestConnectionBoolean ==
    host_op = "test_connection"
        => /\ LastOutcome.kind = "flavor" => host_result = BoolResult(TRUE)
           /\ RaisedException(LastOutcome) => host_result = BoolResult(FALSE)

\* test_connection answered False to a provider error.
C13_Witness ==
    /\ host_op = "test_connection"
    /\ LastOutcome = Raise("LocationNotFoundError")
    /\ host_result = BoolResult(FALSE)

\* C14: one run of _async_update_data makes exactly one call,
\* get_current_flavor(location_id); a returned FlavorInfo is returned as it is,
\* FlavorProviderAuthenticationError becomes ConfigEntryAuthFailed, every other
\* Exception (FlavorProviderError of any kind or not) becomes UpdateFailed.
C14_UpdateOutcomeMapping ==
    [][(host_op' = "_async_update_data" /\ host_left' < host_left)
        => LET call == host_calls'[Len(host_calls')]
               out == call.outcome
           IN  /\ Len(host_calls') = Len(host_calls) + 1
               /\ call.op = "get_current_flavor"
               /\ call.arg = location_id
               /\ out.kind = "flavor" => host_result' = out
               /\ (RaisedException(out)
                   /\ IsInstance(out.value, "FlavorProviderAuthenticationError"))
                    => host_result' = Raise("ConfigEntryAuthFailed")
               /\ (RaisedException(out)
                   /\ ~IsInstance(out.value, "FlavorProviderAuthenticationError"))
                    => host_result' = Raise("UpdateFailed")]_vars

\* An update that met an authentication failure.
C14_Witness ==
    /\ host_op = "_async_update_data"
    /\ LastOutcome = Raise("FlavorProviderAuthenticationError")
    /\ host_result = Raise("ConfigEntryAuthFailed")

(***************************************************************************)
(* Properties of flavor extraction.                                        *)
(***************************************************************************)
\* Culver's get_current_flavor ended on a restaurant page fetched with status 200.
CulversPageFetched ==
    /\ provider = "culvers"
    /\ Done("get_current_flavor")
    /\ Len(responses) = 1
    /\ responses[1].status = "ok"

\* The page carries the script payload with a named first flavor.
HasScriptFlavor(body) ==
    /\ body.next_data = "json"
    /\ body.has_path
    /\ body.flavors # << >>
    /\ Truthy(Head(body.flavors))

\* C15: on a page with the script payload and no legacy heading, Culver's
\* get_current_flavor returns a FlavorInfo named after the first flavor of
\* the payload.
C15_ScriptFlavorReturned ==
    (/\ CulversPageFetched
     /\ HasScriptFlavor(responses[1].body)
     /\ responses[1].body.legacy_heading = "")
        => result = FlavorResult(Head(responses[1].body.flavors))

\* C16: on a page with the legacy heading pattern and no script payload,
\* Culver's get_current_flavor returns the heading text as the name.
C16_LegacyHeadingReturned ==
    (/\ CulversPageFetched
     /\ responses[1].body.next_data = "absent"
     /\ Truthy(responses[1].body.legacy_heading))
        => result = FlavorResult(responses[1].body.legacy_heading)

\* get_current_flavor returned a FlavorInfo.
FlavorReturned == Done("get_current_flavor") /\ result.kind = "flavor"

\* C17: for every adapter and every fetched page, the name of a FlavorInfo
\* returned by get_current_flavor is non-empty, does not contain the word
\* "flavor" in any case, and is shorter than the longest length any heuristic
\* allows (100 characters).
C17_ReturnedNamePlausible ==
    FlavorReturned =>
        /\ Truthy(result.value)
        /\ ~Contains("flavor", Lower(result.value))
        /\ Len(result.value) < 100

(***************************************************************************)
(* Properties of the config flow.                                          *)
(***************************************************************************)
\* The last call of the host-side code is a search the location_search step
\* made with a valid term, and the search found nothing.
EmptySearchHandled ==
    /\ host_op = "async_step_location_search"
    /\ host_calls # << >>
    /\ host_calls[Len(host_calls)].by = "async_step_location_search"
    /\ Len(host_calls[Len(host_calls)].arg) >= MIN_SEARCH_TERM_LENGTH
    /\ LastOutcome = ListResult(<< >>)

\* C18: when the location_search step is submitted with a valid search term
\* and search_locations returns the empty list, the flow shows the
\* location_search form again with errors["search_term"] ==
\* "no_locations_found", keeps its location list and creates no entry.
C18_EmptySearchShowsFormAgain ==
    [][(EmptySearchHandled' /\ Len(host_calls') = Len(host_calls) + 1)
        => /\ host_result' = FormResult("location_search")
           /\ flow_step' = "location_search"
           /\ flow_errors' = FieldError("search_term", "no_locations_found")
           /\ flow_locations' = flow_locations
           /\ flow_entry' = flow_entry
           /\ flow_entry' = << >>
           /\ configured' = configured]_vars

\* A search for "Madison" found nothing and the search form is shown again.
C18_Witness ==
    /\ EmptySearchHandled
    /\ host_calls[Len(host_calls)].arg = "Madison"
    /\ flow_step = "location_search"
    /\ flow_errors = FieldError("search_term", "no_locations_found")

\* The flow ended by creating an entry.
EntryCreated == flow_step = "create_entry" /\ flow_entry # << >>

\* C19: submitting a location of the list with a name and an update interval
\* creates an entry whose title is the name the user supplied and whose data
\* holds the selected provider, the submitted location id and the submitted
\* interval.
C19_EntryTitleIsSubmittedName ==
    (/\ EntryCreated
     /\ Head(select_input).name # << >>
     /\ Head(select_input).update_interval # << >>)
        => /\ Head(flow_entry).title = Head(Head(select_input).name)
           /\ Head(flow_entry).provider = flow_provider_id
           /\ Head(flow_entry).location_id = Head(select_input).location_id
           /\ Head(flow_entry).update_interval = Head(Head(select_input).update_interval)

\* The provider was asked about store id after some search_locations call:
\* get_location_by_id(id), or test_connection, which calls
\* get_current_flavor(id).
ValidatedAfterSearch(id) ==
    \E i, j \in DOMAIN host_calls :
        /\ j < i
        /\ host_calls[j].op = "search_locations"
        /\ host_calls[i].arg = id
        /\ \/ host_calls[i].op = "get_location_by_id"
           \/ host_calls[i].by = "test_connection"

\* C20: an entry is created only after get_location_by_id or test_connection
\* was called for the chosen store id, after search_locations.
C20_EntryValidatedBeforeCreation ==
    EntryCreated => ValidatedAfterSearch(Head(flow_entry).location_id)

\* Store ids as the adapters and the users produce them.
SampleStoreIds ==
    SubmittedIds \cup {"madison-west", "leducs-wales", "west_madison", "brookfield",
                       "kopps_brookfield", ""}

\* Different pairs of a supported provider and a store id have different
\* unique ids.
UniqueIdsDistinct ==
    \A p1, p2 \in FlowProviders : \A s1, s2 \in SampleStoreIds :
        UniqueId(p1, s1) = UniqueId(p2, s2) => (p1 = p2 /\ s1 = s2)

\* C21: at most one entry exists per (provider_id, store_id): an entry is
\* created only under the unique id provider_id + "_" + location_id, only when
\* no entry holds that id, and the id is recorded with it; and different
\* pairs of a supported provider and a store id have different unique ids.
C21_OneEntryPerLocation ==
    [][/\ flow_entry' # flow_entry
          => /\ UniqueId(flow_provider_id, Head(flow_entry').location_id) \notin configured
             /\ configured' = configured
                    \cup {UniqueId(flow_provider_id, Head(flow_entry').location_id)}
             /\ Head(flow_entry').provider = flow_provider_id
       /\ (host_op' = "async_step_location_select" /\ host_left' < host_left
           /\ SelectedLocation(flow_locations, Head(select_input').location_id) # << >>
           /\ UniqueId(flow_provider_id, Head(select_input').location_id) \in configured)
          => /\ flow_step' = "abort"
             /\ flow_entry' = flow_entry
             /\ configured' = configured
       /\ UniqueIdsDistinct]_vars

\* A flow was aborted because its location is configured already.
C21_Witness ==
    /\ flow_step = "abort"
    /\ flow_entry = << >>
    /\ UniqueId(flow_provider_id, Head(select_input).location_id) \in configured

(***************************************************************************)
(* Properties of the setup of an entry and of the sensor.                  *)
(***************************************************************************)
\* C22: async_setup_entry for an entry whose provider id is not a key of
\* PROVIDER_CLASSES raises ConfigEntryNotReady; no provider and no
\* coordinator are constructed, entry.runtime_data stays unset and no
\* platform is forwarded.
C22_UnknownProviderNotReady ==
    (entry_data.provider \notin DOMAIN PROVIDER_CLASSES /\ setup_pc # "none")
        => /\ setup_pc = "raised"
           /\ setup_result = Raise("ConfigEntryNotReady")
           /\ setup_provider = << >>
           /\ ~setup_coordinator
           /\ runtime_data = << >>
           /\ platforms = {}
           /\ sensors = {}
           /\ host_calls = << >>

\* The setup of the entry of tests/test_init.py has ended.
C22_Witness ==
    /\ entry_data.provider = "invalid_provider"
    /\ setup_pc = "raised"
    /\ setup_result = Raise("ConfigEntryNotReady")

\* The sensor was read last, so that sensor_state shows the present data.
SensorJustRead == host_op = "native_value" /\ sensor_state # << >>

\* C23: the sensor renders the data of the coordinator: with a FlavorInfo,
\* native_value is its name; with no data, native_value is "Unknown" and
\* extra_state_attributes is the empty mapping.
C23_SensorRendersData ==
    SensorJustRead
        => /\ coordinator_data # << >>
                => Head(sensor_state).native_value = Head(coordinator_data).name
           /\ coordinator_data = << >>
                => /\ Head(sensor_state).native_value = "Unknown"
                   /\ Head(sensor_state).extra_state_attributes = {}

\* The sensor was read before the coordinator held any data.
C23_Witness ==
    /\ SensorJustRead
    /\ coordinator_data = << >>
    /\ Head(sensor_state).native_value = "Unknown"

\* The calls of get_current_flavor the coordinator made that returned.
SuccessfulUpdates ==
    SelectSeq(host_calls, LAMBDA call :
        call.by = "_async_update_data" /\ call.outcome.kind = "flavor")

\* The FlavorInfo of the last successful update, << >> when there was none.
LastKnownGood ==
    IF SuccessfulUpdates = << >> THEN << >>
    ELSE <<[name |-> SuccessfulUpdates[Len(SuccessfulUpdates)].outcome.value]>>

\* C24: after any sequence of updates the coordinator holds the FlavorInfo of
\* its last successful update, whatever failures followed it, and that is
\* what the sensor reads.
C24_FailureKeepsLastKnownGood ==
    /\ coordinator_data = LastKnownGood
    /\ (SensorJustRead /\ LastKnownGood # << >>)
            => Head(sensor_state).native_value = Head(LastKnownGood).name

\* The sensor is read after a success and two failed updates.
C24_Witness ==
    /\ SensorJustRead
    /\ Len(host_calls) = 3
    /\ host_calls[1].outcome = FlavorResult("Tiramisu")
    /\ host_calls[2].outcome = Raise("FlavorNotAvailableError")
    /\ host_calls[3].outcome = Raise("TimeoutError")
    /\ ~last_update_success
    /\ Head(sensor_state).native_value = "Tiramisu"

(***************************************************************************)
(* Properties of the backoff and of cancellation in the retry helper.      *)
(***************************************************************************)
RECURSIVE SumSeq(_)
SumSeq(q) == IF q = << >> THEN 0 ELSE Head(q) + SumSeq(Tail(q))

C28_CancellationEndsLoop ==
    \A t \in Tasks :
        /\ last_exception[t].kind # "cancelled"
        /\ cancel_requested[t]
            => /\ pc[t] = "raised"
               /\ outcome[t].kind = "cancelled"
               /\ invocations[t] = outcome[t].by

\* A call was cancelled in its backoff sleep, after one failed attempt and
\* with retries left.
C28_Witness ==
    /\ cancel_requested[1]
    /\ pc[1] = "raised"
    /\ outcome[1].kind = "cancelled"
    /\ max_retries = 2
    /\ invocations[1] = 1
    /\ Len(backoff_slept[1]) = 1

\* A call was cancelled while its request was pending.
C28_WitnessInRequest ==
    /\ cancel_requested[1]
    /\ outcome[1].kind = "cancelled"
    /\ invocations[1] = 1
    /\ backoff_slept[1] = << >>
    /\ max_retries = 2

(***************************************************************************)
(* Properties of the errors of the adapters.                               *)
(***************************************************************************)
\* C26: whatever the response, every exception get_current_flavor or
\* get_location_by_id raises is a FlavorProviderError.
C26_OnlyProviderErrorsEscape ==
    ((Done("get_current_flavor") \/ Done("get_location_by_id")) /\ result.kind = "raise")
        => IsInstance(result.value, "FlavorProviderError")

\* Culver's get_current_flavor met the TypeError of the FlavorInfo constructor
\* on a page with a script payload and raised FlavorNotAvailableError.
C26_Witness ==
    /\ CulversPageFetched
    /\ HasScriptFlavor(responses[1].body)
    /\ result = Raise("FlavorNotAvailableError")

\* Culver's get_location_by_id met a JSON body that does not parse and raised
\* LocationNotFoundError.
C26_WitnessLookup ==
    /\ provider = "culvers"
    /\ Done("get_location_by_id")
    /\ Len(responses) = 1
    /\ responses[1].status = "ok"
    /\ ~responses[1].body.parses
    /\ result = Raise("LocationNotFoundError")

(***************************************************************************)
(* Properties of get_upcoming_flavors.                                     *)
(***************************************************************************)
UpcomingReturned == Done("get_upcoming_flavors") /\ result.kind = "upcoming"

AscendingByDate(pairs) ==
    \A i \in 1..Len(pairs) : \A j \in 1..Len(pairs) :
        i < j => ~DateLess(pairs[j].date, pairs[i].date)

\* get_upcoming_flavors raises nothing and returns at most days entries.
UpcomingTruncated ==
    Done("get_upcoming_flavors")
        => result.kind = "upcoming" /\ Len(result.value) <= days

\* get_upcoming_flavors returns the empty sequence from the base default and
\* after a fetch that failed.
UpcomingEmptyOnFailure ==
    (Done("get_upcoming_flavors")
     /\ (~FetchesCalendar(provider) \/ responses[1].status # "ok"))
        => result = UpcomingResult(<< >>)

\* C27: get_upcoming_flavors returns at most days (date, FlavorInfo) pairs,
\* ascending by date; the base default and every failed fetch give the empty
\* sequence and no exception.
C27_UpcomingAscendingTruncated ==
    /\ UpcomingTruncated
    /\ UpcomingEmptyOnFailure
    /\ UpcomingReturned => AscendingByDate(result.value)

(***************************************************************************)
(* Properties of the two provider registries and of the order of the setup. *)
(***************************************************************************)
\* The setup refused the provider id of the entry.
UnsupportedProvider == setup_pc = "raised" /\ setup_provider = << >>

\* The class the setup registry gives for a key has that key as its provider_id.
RegistryKeysAreProviderIds ==
    setup_provider # << >> => Head(setup_provider) = entry_data.provider

\* C29: no entry whose provider id the config flow offers fails its setup
\* with "Unsupported provider", and the class the setup registry gives for a
\* key has that key as its provider_id.
C29_FlowProvidersInRegistry ==
    /\ entry_data.provider \in FlowProviders => ~UnsupportedProvider
    /\ RegistryKeysAreProviderIds

\* The first refresh of the setup raised.
FirstRefreshRaised == setup_pc = "raised" /\ setup_coordinator

\* C30: a sensor exists only if entry.runtime_data holds the coordinator and
\* the coordinator has completed its first refresh; runtime_data is set only
\* after that refresh and the platform is forwarded only after runtime_data
\* is set; when the first refresh raises, runtime_data stays unset, no
\* platform is forwarded and async_setup_entry does not return True.
C30_SensorOnlyAfterFirstRefresh ==
    /\ sensors # {} => runtime_data # << >> /\ Head(runtime_data).coordinator
    /\ platforms # {} => runtime_data # << >>
    /\ runtime_data # << >>
          => /\ setup_provider # << >>
             /\ setup_coordinator
             /\ host_calls # << >>
             /\ coordinator_data # << >>
    /\ setup_result = BoolResult(TRUE) => sensors # {}
    /\ FirstRefreshRaised
          => /\ runtime_data = << >>
             /\ platforms = {}
             /\ sensors = {}
             /\ setup_result # BoolResult(TRUE)

\* The first refresh of a Culver's entry raised and the setup ended there.
C30_Witness ==
    /\ FirstRefreshRaised
    /\ Len(host_calls) = 1
    /\ setup_result = Raise("ConfigEntryNotReady")

\* A setup ran to its end and the sensor exists.
C30_WitnessLoaded ==
    /\ setup_result = BoolResult(TRUE)
    /\ sensors # {}

====
